---- MODULE Spec2Model ----
(***************************************************************************)
(* Ledger and balance derivation of the gold-smithing accounting system.   *)
(*                                                                         *)
(* Numbers.  Every decimal quantity (money, grams, purity) is an integer   *)
(* count of 10^-8, the precision of the product of two Numeric(_, 4)       *)
(* columns.  A value held in a Numeric(_, 4) column is a multiple of Unit  *)
(* (10^-4): Numeric4 rounds on the way into the column.  A Python float is *)
(* treated as the decimal it prints as; IEEE rounding error, far below     *)
(* 10^-8 for the magnitudes used here, is not modelled.                    *)
(*                                                                         *)
(* Nullable columns and optional payload keys hold <<>> (None / absent)    *)
(* or <<v>>.                                                               *)
(***************************************************************************)
EXTENDS Integers, Sequences, FiniteSets, TLC

VARIABLES
  adapter,                \* which AccountingAdapter the process constructed
                          \* ("both": one of each, driven side by side)
  customers,              \* table customers, customer_id = index
  bank_accounts,          \* table bank_accounts, account_id = index
  jewelry_items,          \* table jewelry_items, jewelry_id = index
  transactions,           \* table transactions (the ledger), transaction_id = index
  _transaction_log,       \* MockAccountingAdapter._transaction_log
  pending,                \* per open session: the work it has not committed yet
  _gold_price,            \* the adapter's _gold_price
  plan_call,              \* the execute_plan request being served: its plan,
                          \* its position in the loop, its results and errors
  last                    \* what the most recent call returned to its caller

vars == <<adapter, customers, bank_accounts, jewelry_items, transactions,
          _transaction_log, pending, _gold_price, plan_call, last>>

(* ------------------------------ bounds --------------------------------- *)
\* Ledger rows appended in one run.
MaxTransactions == 2
\* Entries of the mock adapter's log in one run.
MaxMockLog == 1
\* Callers that may be inside a handler at the same time.
MaxSessions == 2
\* Rows created in each entity table in one run, beyond the seeded ones.
MaxCreated == 1

(* ----------------------------- constants ------------------------------- *)
NumericScale == 4
\* main.py: the price both adapters start with, in USD per gram.
DEFAULT_GOLD_USD_PER_GRAM == 157
Unit == 10 ^ NumericScale

SELL_RAW_GOLD == "Sell Raw Gold"
BUY_RAW_GOLD == "Buy Raw Gold"
RECEIVE_MONEY == "Receive Money"
SEND_MONEY == "Send Money"
RECEIVE_RAW_GOLD == "Receive Raw Gold"
GIVE_RAW_GOLD == "Give Raw Gold"
RECEIVE_JEWELRY == "Receive Jewelry"
GIVE_JEWELRY == "Give Jewelry"

TransactionType ==
  {SELL_RAW_GOLD, BUY_RAW_GOLD, RECEIVE_MONEY, SEND_MONEY,
   RECEIVE_RAW_GOLD, GIVE_RAW_GOLD, RECEIVE_JEWELRY, GIVE_JEWELRY}

RAW_GOLD_TYPES == {SELL_RAW_GOLD, BUY_RAW_GOLD, RECEIVE_RAW_GOLD, GIVE_RAW_GOLD}

JEWELRY_TYPES == {RECEIVE_JEWELRY, GIVE_JEWELRY}

MONEY_TYPES == {RECEIVE_MONEY, SEND_MONEY}

IN_STOCK == "In Stock"
CONSIGNMENT == "In Stock (Consignment)"

(* ------------------------------ helpers -------------------------------- *)
None == <<>>

Some(v) == <<v>>

Abs(x) == IF x < 0 THEN -x ELSE x

\* A Numeric(p, 4) column keeps four decimal places: the value is rounded to
\* the nearest multiple of Unit, a tie going away from zero.
Numeric4(x) ==
  IF x >= 0 THEN ((x + Unit \div 2) \div Unit) * Unit
  ELSE -(((Abs(x) + Unit \div 2) \div Unit) * Unit)

\* The same for a nullable column.
NullableNumeric4(m) == IF m = None THEN None ELSE Some(Numeric4(m[1]))

\* float(a) * float(b) of two column values, in 10^-8.
FloatProduct(a, b) == (a \div Unit) * (b \div Unit)

(* --------------------------- payload values ---------------------------- *)
\* A payload value that the code feeds to Decimal(str(v)): a number, or
\* something that is not one.
Num(n) == [t |-> "num", n |-> n]

NotANumber == [t |-> "str", n |-> 0]

\* dict.get(key, 0) on an optional key.
GetOr0(m) == IF m = None THEN Num(0) ELSE m[1]

\* Decimal(str(v)): defined for numbers only (InvalidOperation otherwise).
CanDecimal(v) == v.t = "num"

_d(v) == v.n

EmptyDetails ==
  [is_dict |-> TRUE, purity |-> None, weight_grams |-> None, price |-> None,
   amount |-> None, bank_account_id |-> None, jewelry_code |-> None]

(* ------------------------------ entities ------------------------------- *)
CustomerExists(customer_id) == customer_id \in 1..Len(customers)

BankAccountExists(m) == m # None /\ m[1] \in 1..Len(bank_accounts)

\* db.query(JewelryItem).filter(jewelry_code == code).first(): the id of the
\* item carrying the code, 0 when there is none (codes are unique).
JewelryByCode(m) ==
  IF m = None \/ ~(\E i \in 1..Len(jewelry_items) : jewelry_items[i].jewelry_code = m[1])
  THEN 0
  ELSE CHOOSE i \in 1..Len(jewelry_items) : jewelry_items[i].jewelry_code = m[1]

(* ---------------------------- projections ------------------------------ *)
\* What a session reads: the four tables.
DB ==
  [customers |-> customers, bank_accounts |-> bank_accounts,
   jewelry_items |-> jewelry_items, transactions |-> transactions]

\* SUM(column) over the rows with the given indices.
RECURSIVE SumColumn(_, _, _)
SumColumn(rows, I, column) ==
  IF I = {} THEN 0
  ELSE LET i == CHOOSE j \in I : TRUE
       IN rows[i][column] + SumColumn(rows, I \ {i}, column)

\* Mutant: the customer filter is lost.
RowsOfCustomer_nofilter(db, customer_id) == 1..Len(db.transactions)

\* .filter(Transaction.customer_id == customer_id)
RowsOfCustomer(db, customer_id) ==
  {i \in 1..Len(db.transactions) : db.transactions[i].customer_id = customer_id}

\* Mutant: the sums are taken from the customer's latest row alone.
_customer_balances_latest(db, customer_id) ==
  LET I == RowsOfCustomer(db, customer_id)
      latest == IF I = {} THEN {} ELSE {CHOOSE i \in I : \A j \in I : j <= i}
  IN [money_sum |-> SumColumn(db.transactions, latest, "money_amount"),
      gold_sum |-> SumColumn(db.transactions, latest, "gold_amount_grams")]

\* routers/customers.py: coalesce(sum(money_amount), 0), coalesce(sum(gold_amount_grams), 0)
_customer_balances(db, customer_id) ==
  [money_sum |-> SumColumn(db.transactions, RowsOfCustomer(db, customer_id), "money_amount"),
   gold_sum |-> SumColumn(db.transactions, RowsOfCustomer(db, customer_id), "gold_amount_grams")]

\* routers/customers.py: the balances of a CustomerResponse.
_customer_response(db, customer_id) ==
  LET c == db.customers[customer_id]
      sums == _customer_balances(db, customer_id)
  IN [customer_id |-> customer_id,
      initial_money_balance |-> c.initial_money_balance,
      initial_gold_balance_grams |-> c.initial_gold_balance_grams,
      money_balance |-> c.initial_money_balance + sums.money_sum,
      gold_balance_grams |-> c.initial_gold_balance_grams + sums.gold_sum]

\* Mutant: a jewelry row is valued at what its item weighs now.
_calculate_customer_balance_revalued(db, customer_id) ==
  LET I == {i \in 1..Len(db.transactions) : db.transactions[i].customer_id = customer_id}
      Jewelry == {i \in I : db.transactions[i].item_id # <<>>}
      money_sum == SumColumn(db.transactions, I, "money_amount")
      gold_sum == SumColumn(db.transactions, I \ Jewelry, "gold_amount_grams")
      valued == [i \in 1..Len(db.transactions) |->
                   IF i \in Jewelry
                   THEN LET item == db.jewelry_items[db.transactions[i].item_id[1]]
                            pure == (item.weight_grams \div 10000) * (item.purity \div 10000)
                        IN [gold_amount_grams |->
                              IF db.transactions[i].gold_amount_grams < 0 THEN -pure ELSE pure]
                   ELSE [gold_amount_grams |-> 0]]
  IN [rial |-> db.customers[customer_id].initial_money_balance + money_sum,
      gold_gr |-> db.customers[customer_id].initial_gold_balance_grams + gold_sum
                  + SumColumn(valued, Jewelry, "gold_amount_grams"),
      usd |-> 0]

\* SqlAlchemyAdapter._calculate_customer_balance
_calculate_customer_balance(db, customer_id) ==
  LET I == {i \in 1..Len(db.transactions) : db.transactions[i].customer_id = customer_id}
      money_sum == SumColumn(db.transactions, I, "money_amount")
      gold_sum == SumColumn(db.transactions, I, "gold_amount_grams")
  IN IF customer_id \notin 1..Len(db.customers)
     THEN [rial |-> 0, gold_gr |-> 0, usd |-> 0]
     ELSE [rial |-> db.customers[customer_id].initial_money_balance + money_sum,
           gold_gr |-> db.customers[customer_id].initial_gold_balance_grams + gold_sum,
           usd |-> 0]

\* SqlAlchemyAdapter.get_account_balance (account_id already an integer)
get_account_balance(db, account_id) == _calculate_customer_balance(db, account_id)

\* The characters of the names the tables hold (a TLA+ string has no
\* characters to look at).
Characters ==
  [full_name \in {"Collaborator Akbari", "Customer Mohammadi"} |->
     IF full_name = "Collaborator Akbari"
     THEN <<"C", "o", "l", "l", "a", "b", "o", "r", "a", "t", "o", "r", " ",
            "A", "k", "b", "a", "r", "i">>
     ELSE <<"C", "u", "s", "t", "o", "m", "e", "r", " ",
            "M", "o", "h", "a", "m", "m", "a", "d", "i">>]

\* str.lower() over those characters.
lower(chars) ==
  [i \in 1..Len(chars) |->
     CASE chars[i] = "A" -> "a"
       [] chars[i] = "C" -> "c"
       [] chars[i] = "M" -> "m"
       [] OTHER -> chars[i]]

\* sub in chars
Contains(chars, sub) ==
  \E i \in 1..(Len(chars) - Len(sub) + 1) : SubSeq(chars, i, i + Len(sub) - 1) = sub

\* SqlAlchemyAdapter.get_accounts(account_type): the customers in table
\* order, typed by their names, those of another type skipped unless
\* account_type is 'all', each with its derived balance.
SqlAlchemyAdapter_get_accounts(db, account_type) ==
  LET account(c) ==
        LET name_lower == lower(Characters[db.customers[c].full_name])
            acc_type == IF Contains(name_lower, <<"c", "o", "l", "l", "a", "b", "o", "r",
                                                  "a", "t", "o", "r">>)
                        THEN "collaborator" ELSE "customer"
        IN [id |-> c,
            name |-> db.customers[c].full_name,
            type |-> acc_type,
            balance |-> _calculate_customer_balance(db, c)]
      accounts == [c \in 1..Len(db.customers) |-> account(c)]
      kept(acc) == ~(account_type # "all" /\ acc.type # account_type)
  IN SelectSeq(accounts, kept)

\* Mutant: the rows are not filtered by bank account.
_balance_for_account_nofilter(db, account_id) ==
  SumColumn(db.transactions, 1..Len(db.transactions), "money_amount")

\* routers/bank_accounts.py
_balance_for_account(db, account_id) ==
  SumColumn(db.transactions,
            {i \in 1..Len(db.transactions) :
               db.transactions[i].bank_account_id = Some(account_id)},
            "money_amount")

\* Mutant: only the traded raw gold (Sell, Buy) is bucketed; raw gold
\* received or given is left out.
get_customer_balance_raw_gold_by_purity_trades(db, customer_id) ==
  LET I == {i \in 1..Len(db.transactions) :
              /\ db.transactions[i].customer_id = customer_id
              /\ db.transactions[i].transaction_type \in {SELL_RAW_GOLD, BUY_RAW_GOLD}
              /\ db.transactions[i].purity # None}
  IN {[purity |-> db.transactions[i].purity[1],
       net_gold_grams |->
         SumColumn(db.transactions,
                   {j \in I : db.transactions[j].purity = db.transactions[i].purity},
                   "gold_amount_grams")] : i \in I}

\* Mutant: every bucket carries the sum over all purities.
get_customer_balance_raw_gold_by_purity_netted(db, customer_id) ==
  LET I == {i \in 1..Len(db.transactions) :
              /\ db.transactions[i].customer_id = customer_id
              /\ db.transactions[i].transaction_type \in RAW_GOLD_TYPES
              /\ db.transactions[i].purity # None}
  IN {[purity |-> db.transactions[i].purity[1],
       net_gold_grams |-> SumColumn(db.transactions, I, "gold_amount_grams")] : i \in I}

\* routers/bank_accounts.py: GET /bank-accounts, every account with its
\* derived balance.
list_bank_accounts(db) ==
  [a \in 1..Len(db.bank_accounts) |->
     [account_id |-> a,
      account_name |-> db.bank_accounts[a].account_name,
      balance |-> _balance_for_account(db, a)]]

\* routers/customers.py: GET /customers/{id}/transactions, the customer's
\* rows ordered by transaction_date ascending.  ORDER BY fixes no order
\* among rows of equal transaction_date, so the projection is the set of
\* lists the query may return.
get_customer_transactions(db, customer_id) ==
  LET I == RowsOfCustomer(db, customer_id)
      n == Cardinality(I)
      Sorted(f) == \A a, b \in 1..n :
                     a < b => /\ f[a] # f[b]
                              /\ db.transactions[f[a]].transaction_date
                                   <= db.transactions[f[b]].transaction_date
  IN {[k \in 1..n |-> db.transactions[f[k]]] : f \in {g \in [1..n -> I] : Sorted(g)}}

\* routers/customers.py: one bucket per purity of the customer's raw-gold rows.
get_customer_balance_raw_gold_by_purity(db, customer_id) ==
  LET I == {i \in 1..Len(db.transactions) :
              /\ db.transactions[i].customer_id = customer_id
              /\ db.transactions[i].transaction_type \in RAW_GOLD_TYPES
              /\ db.transactions[i].purity # None}
  IN {[purity |-> db.transactions[i].purity[1],
       net_gold_grams |->
         SumColumn(db.transactions,
                   {j \in I : db.transactions[j].purity = db.transactions[i].purity},
                   "gold_amount_grams")] : i \in I}

\* Mutant: a net of zero is reported as held.
get_customer_balance_jewelry_ge(db, customer_id) ==
  LET I == {i \in 1..Len(db.transactions) :
              /\ db.transactions[i].customer_id = customer_id
              /\ db.transactions[i].transaction_type \in JEWELRY_TYPES
              /\ db.transactions[i].item_id # None}
      Net(item) == SumColumn(db.transactions,
                             {j \in I : db.transactions[j].item_id = item},
                             "gold_amount_grams")
  IN {[jewelry_code |-> db.jewelry_items[db.transactions[i].item_id[1]].jewelry_code,
       status |-> IF Net(db.transactions[i].item_id) >= 0 THEN "Held by us"
                  ELSE "With customer"] : i \in I}

\* routers/customers.py: the rows of the jewelry query, one per item of the
\* customer's jewelry rows, with the sum of gold_amount_grams over them.
jewelry_net_gold(db, customer_id) ==
  LET I == {i \in 1..Len(db.transactions) :
              /\ db.transactions[i].customer_id = customer_id
              /\ db.transactions[i].transaction_type \in JEWELRY_TYPES
              /\ db.transactions[i].item_id # None}
  IN {[item_id |-> db.transactions[i].item_id[1],
       net_gold |->
         SumColumn(db.transactions,
                   {j \in I : db.transactions[j].item_id = db.transactions[i].item_id},
                   "gold_amount_grams")] : i \in I}

\* Mutant: an item whose label is the consignment marker is reported as
\* held, whatever its rows add up to.
get_customer_balance_jewelry_label(db, customer_id) ==
  LET I == {i \in 1..Len(db.transactions) :
              /\ db.transactions[i].customer_id = customer_id
              /\ db.transactions[i].transaction_type \in JEWELRY_TYPES
              /\ db.transactions[i].item_id # None}
      Net(item) == SumColumn(db.transactions,
                             {j \in I : db.transactions[j].item_id = item},
                             "gold_amount_grams")
  IN {[jewelry_code |-> db.jewelry_items[db.transactions[i].item_id[1]].jewelry_code,
       status |-> IF db.jewelry_items[db.transactions[i].item_id[1]].status
                       = "In Stock (Consignment)"
                     \/ Net(db.transactions[i].item_id) > 0
                  THEN "Held by us"
                  ELSE IF Net(db.transactions[i].item_id) < 0 THEN "With customer"
                  ELSE "Settled"] : i \in I}

\* routers/customers.py: the custody status of each item of the customer's
\* jewelry rows.
get_customer_balance_jewelry(db, customer_id) ==
  LET I == {i \in 1..Len(db.transactions) :
              /\ db.transactions[i].customer_id = customer_id
              /\ db.transactions[i].transaction_type \in JEWELRY_TYPES
              /\ db.transactions[i].item_id # None}
      Net(item) == SumColumn(db.transactions,
                             {j \in I : db.transactions[j].item_id = item},
                             "gold_amount_grams")
      Code(item) == IF item[1] \in 1..Len(db.jewelry_items)
                    THEN db.jewelry_items[item[1]].jewelry_code
                    ELSE "?"
  IN {[jewelry_code |-> Code(db.transactions[i].item_id),
       status |-> IF Net(db.transactions[i].item_id) > 0 THEN "Held by us"
                  ELSE IF Net(db.transactions[i].item_id) < 0 THEN "With customer"
                  ELSE "Settled"] : i \in I}

(* ------------------------- ledger rows, results ------------------------ *)
\* The locals of the handlers before the type dispatch: exact decimals, not
\* yet rounded by the columns.
Fields0 ==
  [money_amount |-> 0, gold_amount_grams |-> 0, bank_account_id |-> None,
   item_id |-> None, price |-> None, weight_grams |-> None, purity |-> None]

\* The latest transaction_date of the ledger, 0 for the empty ledger.
LatestDate ==
  IF transactions = <<>> THEN 0
  ELSE CHOOSE d \in {transactions[i].transaction_date : i \in 1..Len(transactions)} :
         \A i \in 1..Len(transactions) : transactions[i].transaction_date <= d

\* datetime.utcnow() read when the clock has advanced since the latest row
\* was stamped.
SteadyReading == LatestDate + 1

\* datetime.utcnow() as the wall clock gives it: a later value, the value it
\* gave for the latest row (a second reading within the resolution of the
\* clock or of the DateTime column), or an earlier one (the clock was set
\* back in between).
WallReadings ==
  IF transactions = <<>> THEN {1}
  ELSE {LatestDate - 1, LatestDate, LatestDate + 1}

\* Transaction(...) as it is read back after the INSERT: the autoincrement
\* key, the transaction_date default (utcnow, read at the INSERT), and every
\* Numeric column rounded to its scale.
Transaction(customer_id, tx_type, f, utcnow) ==
  [transaction_id |-> Len(transactions) + 1,
   transaction_date |-> utcnow,
   customer_id |-> customer_id,
   transaction_type |-> tx_type,
   item_id |-> f.item_id,
   bank_account_id |-> f.bank_account_id,
   price |-> NullableNumeric4(f.price),
   weight_grams |-> NullableNumeric4(f.weight_grams),
   purity |-> NullableNumeric4(f.purity),
   money_amount |-> Numeric4(f.money_amount),
   gold_amount_grams |-> Numeric4(f.gold_amount_grams)]

\* How the body of a handler ends: with a row to commit (and the id of the
\* jewelry item whose status it set, 0 for none), with a returned error, or
\* with an exception.
Row(f, consigned) == [out |-> "row", f |-> f, consigned |-> consigned]

Return(message) == [out |-> "return", message |-> message]

Raise(message) == [out |-> "raise", message |-> message]

HTTPException(status_code, detail) ==
  [out |-> "raise", status_code |-> status_code, message |-> detail]

(* ------------- SqlAlchemyAdapter.execute_transaction: valuation -------- *)
AllDecimal(vs) == \A v \in vs : CanDecimal(v)

\* Mutant: the signs taken from the verb, as if the business were selling.
sql_SELL_RAW_GOLD_flipped(details) ==
  IF ~details.is_dict THEN Raise("AttributeError")
  ELSE LET price == GetOr0(details.price)
           weight_grams == GetOr0(details.weight_grams)
           purity == GetOr0(details.purity)
       IN IF ~AllDecimal({price, weight_grams, purity}) THEN Raise("InvalidOperation")
          ELSE Row([Fields0 EXCEPT !.money_amount = -_d(price),
                                   !.gold_amount_grams = _d(weight_grams),
                                   !.weight_grams = Some(_d(weight_grams)),
                                   !.purity = Some(_d(purity)),
                                   !.price = Some(_d(price))], 0)

sql_SELL_RAW_GOLD(details) ==
  IF ~details.is_dict THEN Raise("AttributeError")
  ELSE LET price == GetOr0(details.price)
           weight_grams == GetOr0(details.weight_grams)
           purity == GetOr0(details.purity)
       IN IF ~AllDecimal({price, weight_grams, purity}) THEN Raise("InvalidOperation")
          ELSE Row([Fields0 EXCEPT !.money_amount = _d(price),
                                   !.gold_amount_grams = -_d(weight_grams),
                                   !.weight_grams = Some(_d(weight_grams)),
                                   !.purity = Some(_d(purity)),
                                   !.price = Some(_d(price))], 0)

sql_BUY_RAW_GOLD(details) ==
  IF ~details.is_dict THEN Raise("AttributeError")
  ELSE LET price == GetOr0(details.price)
           weight_grams == GetOr0(details.weight_grams)
           purity == GetOr0(details.purity)
       IN IF ~AllDecimal({price, weight_grams, purity}) THEN Raise("InvalidOperation")
          ELSE Row([Fields0 EXCEPT !.money_amount = -_d(price),
                                   !.gold_amount_grams = _d(weight_grams),
                                   !.weight_grams = Some(_d(weight_grams)),
                                   !.purity = Some(_d(purity)),
                                   !.price = Some(_d(price))], 0)

\* Mutant: the bank account is recorded without being looked up.
sql_RECEIVE_MONEY_nolookup(details) ==
  IF ~details.is_dict THEN Raise("AttributeError")
  ELSE LET amount == GetOr0(details.amount)
       IN IF ~CanDecimal(amount) THEN Raise("InvalidOperation")
          ELSE Row([Fields0 EXCEPT !.money_amount = _d(amount),
                                   !.bank_account_id = details.bank_account_id], 0)

sql_RECEIVE_MONEY(details) ==
  IF ~details.is_dict THEN Raise("AttributeError")
  ELSE IF ~BankAccountExists(details.bank_account_id) THEN Return("Bank account not found")
  ELSE LET amount == GetOr0(details.amount)
       IN IF ~CanDecimal(amount) THEN Raise("InvalidOperation")
          ELSE Row([Fields0 EXCEPT !.money_amount = _d(amount),
                                   !.bank_account_id = details.bank_account_id], 0)

sql_SEND_MONEY(details) ==
  IF ~details.is_dict THEN Raise("AttributeError")
  ELSE IF ~BankAccountExists(details.bank_account_id) THEN Return("Bank account not found")
  ELSE LET amount == GetOr0(details.amount)
       IN IF ~CanDecimal(amount) THEN Raise("InvalidOperation")
          ELSE Row([Fields0 EXCEPT !.money_amount = -_d(amount),
                                   !.bank_account_id = details.bank_account_id], 0)

sql_RECEIVE_RAW_GOLD(details) ==
  IF ~details.is_dict THEN Raise("AttributeError")
  ELSE LET weight_grams == GetOr0(details.weight_grams)
           purity == GetOr0(details.purity)
       IN IF ~AllDecimal({weight_grams, purity}) THEN Raise("InvalidOperation")
          ELSE Row([Fields0 EXCEPT !.gold_amount_grams = _d(weight_grams),
                                   !.weight_grams = Some(_d(weight_grams)),
                                   !.purity = Some(_d(purity))], 0)

\* Mutant: the weight is not negated.
sql_GIVE_RAW_GOLD_positive(details) ==
  IF ~details.is_dict THEN Raise("AttributeError")
  ELSE LET weight_grams == GetOr0(details.weight_grams)
           purity == GetOr0(details.purity)
       IN IF ~AllDecimal({weight_grams, purity}) THEN Raise("InvalidOperation")
          ELSE Row([Fields0 EXCEPT !.gold_amount_grams = _d(weight_grams),
                                   !.weight_grams = Some(_d(weight_grams)),
                                   !.purity = Some(_d(purity))], 0)

sql_GIVE_RAW_GOLD(details) ==
  IF ~details.is_dict THEN Raise("AttributeError")
  ELSE LET weight_grams == GetOr0(details.weight_grams)
           purity == GetOr0(details.purity)
       IN IF ~AllDecimal({weight_grams, purity}) THEN Raise("InvalidOperation")
          ELSE Row([Fields0 EXCEPT !.gold_amount_grams = -_d(weight_grams),
                                   !.weight_grams = Some(_d(weight_grams)),
                                   !.purity = Some(_d(purity))], 0)

\* Mutant: a code that names no item falls back to the first item.
sql_RECEIVE_JEWELRY_fallback(details) ==
  IF ~details.is_dict THEN Raise("AttributeError")
  ELSE LET found == JewelryByCode(details.jewelry_code)
           jewelry_id == IF found = 0 THEN 1 ELSE found
           jewelry == jewelry_items[jewelry_id]
           pure_gold == FloatProduct(jewelry.weight_grams, jewelry.purity)
       IN Row([Fields0 EXCEPT !.gold_amount_grams = pure_gold,
                              !.item_id = Some(jewelry_id)], jewelry_id)

sql_RECEIVE_JEWELRY(details) ==
  IF ~details.is_dict THEN Raise("AttributeError")
  ELSE LET jewelry_id == JewelryByCode(details.jewelry_code)
       IN IF jewelry_id = 0 THEN Return("Jewelry not found")
          ELSE LET jewelry == jewelry_items[jewelry_id]
                   pure_gold == FloatProduct(jewelry.weight_grams, jewelry.purity)
               IN Row([Fields0 EXCEPT !.gold_amount_grams = pure_gold,
                                      !.item_id = Some(jewelry_id)], jewelry_id)

\* Mutant: the gross weight of the item is given back, not its pure gold.
sql_GIVE_JEWELRY_gross(details) ==
  IF ~details.is_dict THEN Raise("AttributeError")
  ELSE LET jewelry_id == JewelryByCode(details.jewelry_code)
       IN IF jewelry_id = 0 THEN Return("Jewelry not found")
          ELSE Row([Fields0 EXCEPT !.gold_amount_grams = -jewelry_items[jewelry_id].weight_grams,
                                   !.item_id = Some(jewelry_id)], 0)

\* Mutant: the branch copied from Receive Jewelry with its status write.
sql_GIVE_JEWELRY_status(details) ==
  IF ~details.is_dict THEN Raise("AttributeError")
  ELSE LET jewelry_id == JewelryByCode(details.jewelry_code)
       IN IF jewelry_id = 0 THEN Return("Jewelry not found")
          ELSE LET jewelry == jewelry_items[jewelry_id]
                   pure_gold == FloatProduct(jewelry.weight_grams, jewelry.purity)
               IN Row([Fields0 EXCEPT !.gold_amount_grams = -pure_gold,
                                      !.item_id = Some(jewelry_id)], jewelry_id)

sql_GIVE_JEWELRY(details) ==
  IF ~details.is_dict THEN Raise("AttributeError")
  ELSE LET jewelry_id == JewelryByCode(details.jewelry_code)
       IN IF jewelry_id = 0 THEN Return("Jewelry not found")
          ELSE LET jewelry == jewelry_items[jewelry_id]
                   pure_gold == FloatProduct(jewelry.weight_grams, jewelry.purity)
               IN Row([Fields0 EXCEPT !.gold_amount_grams = -pure_gold,
                                      !.item_id = Some(jewelry_id)], 0)

\* The if/elif chain over the parsed transaction type.
sql_dispatch(tx_type, details) ==
  CASE tx_type = SELL_RAW_GOLD -> sql_SELL_RAW_GOLD(details)
    [] tx_type = BUY_RAW_GOLD -> sql_BUY_RAW_GOLD(details)
    [] tx_type = RECEIVE_MONEY -> sql_RECEIVE_MONEY(details)
    [] tx_type = SEND_MONEY -> sql_SEND_MONEY(details)
    [] tx_type = RECEIVE_RAW_GOLD -> sql_RECEIVE_RAW_GOLD(details)
    [] tx_type = GIVE_RAW_GOLD -> sql_GIVE_RAW_GOLD(details)
    [] tx_type = RECEIVE_JEWELRY -> sql_RECEIVE_JEWELRY(details)
    [] tx_type = GIVE_JEWELRY -> sql_GIVE_JEWELRY(details)

\* Mutant: a type outside the enum is not rejected; no branch matches it
\* and the row is written with the initial fields.
sql_body_anytype(td) ==
  IF ~CustomerExists(td.customer_id) THEN Return("Customer not found")
  ELSE IF td.transaction_type \notin TransactionType THEN Row(Fields0, 0)
  ELSE sql_dispatch(td.transaction_type, td.details)

\* Mutant: the customer lookup is skipped.
sql_body_nocustomer(td) ==
  IF td.transaction_type \notin TransactionType THEN Return("Invalid transaction type")
  ELSE sql_dispatch(td.transaction_type, td.details)

\* The try body up to the commit: customer check, type parse, dispatch.
sql_body(td) ==
  IF ~CustomerExists(td.customer_id) THEN Return("Customer not found")
  ELSE IF td.transaction_type \notin TransactionType THEN Return("Invalid transaction type")
  ELSE sql_dispatch(td.transaction_type, td.details)

(* ------------------- schemas.py: TransactionCreate ---------------------- *)
\* The members of the details Union, in declaration order; a detail schema
\* is named by the transaction type it belongs to.
UnionMembers ==
  <<SELL_RAW_GOLD, BUY_RAW_GOLD, RECEIVE_MONEY, SEND_MONEY,
    RECEIVE_RAW_GOLD, GIVE_RAW_GOLD, RECEIVE_JEWELRY, GIVE_JEWELRY>>

IsFloat(m) == m # None /\ CanDecimal(m[1])

\* schema.model_validate(data) succeeds: every declared field is present and
\* of its type; keys the schema does not declare are ignored.
SchemaAccepts(schema, data) ==
  /\ data.is_dict
  /\ CASE schema \in {SELL_RAW_GOLD, BUY_RAW_GOLD} ->
             IsFloat(data.purity) /\ IsFloat(data.weight_grams) /\ IsFloat(data.price)
        [] schema \in MONEY_TYPES ->
             IsFloat(data.amount) /\ data.bank_account_id # None
        [] schema \in {RECEIVE_RAW_GOLD, GIVE_RAW_GOLD} ->
             IsFloat(data.weight_grams) /\ IsFloat(data.purity)
        [] schema \in JEWELRY_TYPES ->
             data.jewelry_code # None

\* The instance model_validate builds, and its model_dump(): the declared
\* fields only.
SchemaInstance(schema, data) ==
  [schema |-> schema,
   is_dict |-> TRUE,
   purity |-> IF schema \in RAW_GOLD_TYPES THEN data.purity ELSE None,
   weight_grams |-> IF schema \in RAW_GOLD_TYPES THEN data.weight_grams ELSE None,
   price |-> IF schema \in {SELL_RAW_GOLD, BUY_RAW_GOLD} THEN data.price ELSE None,
   amount |-> IF schema \in MONEY_TYPES THEN data.amount ELSE None,
   bank_account_id |-> IF schema \in MONEY_TYPES THEN data.bank_account_id ELSE None,
   jewelry_code |-> IF schema \in JEWELRY_TYPES THEN data.jewelry_code ELSE None]

\* Validation of the Union field: the first member that accepts the data
\* (the members are declared by decreasing number of fields, so the first
\* acceptor is also the one with the most fields set); 0 when none does.
UnionPick(data) ==
  IF \E i \in 1..Len(UnionMembers) : SchemaAccepts(UnionMembers[i], data)
  THEN CHOOSE i \in 1..Len(UnionMembers) :
         /\ SchemaAccepts(UnionMembers[i], data)
         /\ \A j \in 1..(i - 1) : ~SchemaAccepts(UnionMembers[j], data)
  ELSE 0

\* TransactionCreate(**body): field validation, then the model validator
\* re-validates the dump of the chosen Union member against the schema of
\* the declared type.  [ok |-> FALSE] stands for the ValidationError (422).
details_match_transaction_type(tx_type, picked) ==
  IF SchemaAccepts(tx_type, picked)
  THEN [ok |-> TRUE, details |-> SchemaInstance(tx_type, picked)]
  ELSE [ok |-> FALSE]

TransactionCreate(body) ==
  IF body.transaction_type \notin TransactionType \/ UnionPick(body.details) = 0
  THEN [ok |-> FALSE]
  ELSE details_match_transaction_type(
         body.transaction_type,
         SchemaInstance(UnionMembers[UnionPick(body.details)], body.details))

(* ------------------ routers/transactions.py: valuation ----------------- *)
http_SELL_RAW_GOLD(d) ==
  IF d.schema # SELL_RAW_GOLD THEN HTTPException(422, "Invalid details")
  ELSE Row([Fields0 EXCEPT !.money_amount = _d(d.price[1]),
                           !.gold_amount_grams = -_d(d.weight_grams[1]),
                           !.weight_grams = Some(_d(d.weight_grams[1])),
                           !.purity = Some(_d(d.purity[1])),
                           !.price = Some(_d(d.price[1]))], 0)

http_BUY_RAW_GOLD(d) ==
  IF d.schema # BUY_RAW_GOLD THEN HTTPException(422, "Invalid details")
  ELSE Row([Fields0 EXCEPT !.money_amount = -_d(d.price[1]),
                           !.gold_amount_grams = _d(d.weight_grams[1]),
                           !.weight_grams = Some(_d(d.weight_grams[1])),
                           !.purity = Some(_d(d.purity[1])),
                           !.price = Some(_d(d.price[1]))], 0)

http_RECEIVE_MONEY(d) ==
  IF d.schema # RECEIVE_MONEY THEN HTTPException(422, "Invalid details")
  ELSE IF ~BankAccountExists(d.bank_account_id) THEN HTTPException(404, "Bank account not found")
  ELSE Row([Fields0 EXCEPT !.money_amount = _d(d.amount[1]),
                           !.bank_account_id = d.bank_account_id], 0)

\* Mutant: the amount is not negated.
http_SEND_MONEY_positive(d) ==
  IF d.schema # SEND_MONEY THEN HTTPException(422, "Invalid details")
  ELSE IF ~BankAccountExists(d.bank_account_id) THEN HTTPException(404, "Bank account not found")
  ELSE Row([Fields0 EXCEPT !.money_amount = _d(d.amount[1]),
                           !.bank_account_id = d.bank_account_id], 0)

http_SEND_MONEY(d) ==
  IF d.schema # SEND_MONEY THEN HTTPException(422, "Invalid details")
  ELSE IF ~BankAccountExists(d.bank_account_id) THEN HTTPException(404, "Bank account not found")
  ELSE Row([Fields0 EXCEPT !.money_amount = -_d(d.amount[1]),
                           !.bank_account_id = d.bank_account_id], 0)

http_RECEIVE_RAW_GOLD(d) ==
  IF d.schema # RECEIVE_RAW_GOLD THEN HTTPException(422, "Invalid details")
  ELSE Row([Fields0 EXCEPT !.gold_amount_grams = _d(d.weight_grams[1]),
                           !.weight_grams = Some(_d(d.weight_grams[1])),
                           !.purity = Some(_d(d.purity[1]))], 0)

http_GIVE_RAW_GOLD(d) ==
  IF d.schema # GIVE_RAW_GOLD THEN HTTPException(422, "Invalid details")
  ELSE Row([Fields0 EXCEPT !.gold_amount_grams = -_d(d.weight_grams[1]),
                           !.weight_grams = Some(_d(d.weight_grams[1])),
                           !.purity = Some(_d(d.purity[1]))], 0)

\* Mutant: the status of the received item is not set.
http_RECEIVE_JEWELRY_nostatus(d) ==
  IF d.schema # RECEIVE_JEWELRY THEN HTTPException(422, "Invalid details")
  ELSE LET jewelry_id == JewelryByCode(d.jewelry_code)
       IN IF jewelry_id = 0 THEN HTTPException(404, "Jewelry not found")
          ELSE LET jewelry == jewelry_items[jewelry_id]
                   pure_gold == FloatProduct(jewelry.weight_grams, jewelry.purity)
               IN Row([Fields0 EXCEPT !.gold_amount_grams = pure_gold,
                                      !.item_id = Some(jewelry_id)], 0)

http_RECEIVE_JEWELRY(d) ==
  IF d.schema # RECEIVE_JEWELRY THEN HTTPException(422, "Invalid details")
  ELSE LET jewelry_id == JewelryByCode(d.jewelry_code)
       IN IF jewelry_id = 0 THEN HTTPException(404, "Jewelry not found")
          ELSE LET jewelry == jewelry_items[jewelry_id]
                   pure_gold == FloatProduct(jewelry.weight_grams, jewelry.purity)
               IN Row([Fields0 EXCEPT !.gold_amount_grams = pure_gold,
                                      !.item_id = Some(jewelry_id)], jewelry_id)

http_GIVE_JEWELRY(d) ==
  IF d.schema # GIVE_JEWELRY THEN HTTPException(422, "Invalid details")
  ELSE LET jewelry_id == JewelryByCode(d.jewelry_code)
       IN IF jewelry_id = 0 THEN HTTPException(404, "Jewelry not found")
          ELSE LET jewelry == jewelry_items[jewelry_id]
                   pure_gold == FloatProduct(jewelry.weight_grams, jewelry.purity)
               IN Row([Fields0 EXCEPT !.gold_amount_grams = -pure_gold,
                                      !.item_id = Some(jewelry_id)], 0)

\* The match statement over payload.transaction_type.
http_match(tx_type, d) ==
  CASE tx_type = SELL_RAW_GOLD -> http_SELL_RAW_GOLD(d)
    [] tx_type = BUY_RAW_GOLD -> http_BUY_RAW_GOLD(d)
    [] tx_type = RECEIVE_MONEY -> http_RECEIVE_MONEY(d)
    [] tx_type = SEND_MONEY -> http_SEND_MONEY(d)
    [] tx_type = RECEIVE_RAW_GOLD -> http_RECEIVE_RAW_GOLD(d)
    [] tx_type = GIVE_RAW_GOLD -> http_GIVE_RAW_GOLD(d)
    [] tx_type = RECEIVE_JEWELRY -> http_RECEIVE_JEWELRY(d)
    [] tx_type = GIVE_JEWELRY -> http_GIVE_JEWELRY(d)

\* The handler up to the commit, on a validated payload.
http_body(payload) ==
  IF ~CustomerExists(payload.customer_id) THEN HTTPException(404, "Customer not found")
  ELSE http_match(payload.transaction_type, payload.details)

(* --------------------------- the session ------------------------------- *)
\* Mutant: the marker is written to every item.
StatusWritten_every(consigned) ==
  IF consigned = 0 THEN jewelry_items
  ELSE [i \in 1..Len(jewelry_items) |-> [jewelry_items[i] EXCEPT !.status = CONSIGNMENT]]

\* jewelry.status = "In Stock (Consignment)" on the item the body touched.
StatusWritten(consigned) ==
  IF consigned = 0 THEN jewelry_items
  ELSE [jewelry_items EXCEPT ![consigned].status = CONSIGNMENT]

\* Mutant: the new row takes the place of the latest row.
Committed_overwrites(customer_id, tx_type, b, utcnow) ==
  [transactions |->
     IF transactions = <<>>
     THEN <<Transaction(customer_id, tx_type, b.f, utcnow)>>
     ELSE [transactions EXCEPT ![Len(transactions)] =
             [Transaction(customer_id, tx_type, b.f, utcnow)
                EXCEPT !.transaction_id = Len(transactions)]],
   jewelry_items |-> StatusWritten(b.consigned)]

\* db.add(tx); db.commit(): the row and the pending status change become
\* visible together.
Committed(customer_id, tx_type, b, utcnow) ==
  [transactions |-> Append(transactions, Transaction(customer_id, tx_type, b.f, utcnow)),
   jewelry_items |-> StatusWritten(b.consigned)]

\* db.rollback() (adapter) or closing the session without a commit (route):
\* the pending row and the pending status change are dropped.  After a
\* commit there is nothing pending and the rollback drops nothing.
RolledBack(b) ==
  [transactions |-> transactions, jewelry_items |-> jewelry_items]

\* How the two storage calls that end the handler can go: db.commit() and
\* db.refresh(tx) both return; db.commit() raises; db.commit() returns and
\* db.refresh(tx), the SELECT that reloads the committed row, raises.
StorageOutcomes == {"ok", "commit raises", "refresh raises"}

(* ------------------------------ results -------------------------------- *)
\* last holds the latest call: the operation, the customer_id it was called
\* with, and what came back to the caller.
NoCall ==
  [op |-> "none", customer_id |-> 0, status |-> "none", status_code |-> 0,
   message |-> "", transaction_id |-> None]

\* The result of a call that was made with customer_id.
Call(customer_id, result) == [result EXCEPT !.customer_id = customer_id]

\* {"status": "success", "transaction_id": ..., "message": ...}
SuccessResult(op, transaction_id) ==
  [op |-> op, customer_id |-> 0, status |-> "success", status_code |-> 0,
   message |-> "Transaction executed successfully",
   transaction_id |-> Some(transaction_id)]

\* {"status": "error", "message": ...}
ErrorResult(op, message) ==
  [op |-> op, customer_id |-> 0, status |-> "error", status_code |-> 0,
   message |-> message,
   transaction_id |-> None]

\* Mutant: the exception is not caught and leaves the adapter.
sql_except_reraise(op, message) ==
  [op |-> op, customer_id |-> 0, status |-> "raised", status_code |-> 0,
   message |-> message, transaction_id |-> None]

\* except Exception as e: the adapter turns whatever the body raised into
\* an error result.
sql_except(op, message) ==
  ErrorResult(op, "Failed to execute transaction")

\* An exception that leaves the callee.
Raised(op, status_code, message) ==
  [op |-> op, customer_id |-> 0, status |-> "raised", status_code |-> status_code,
   message |-> message, transaction_id |-> None]

\* The 201 response of the route.
Created(op, transaction_id) ==
  [op |-> op, customer_id |-> 0, status |-> "success", status_code |-> 201,
   message |-> "",
   transaction_id |-> Some(transaction_id)]

\* The sessions callers may hold open at the same time, and a session with
\* nothing pending.  What a session has added or changed and not committed
\* is its own: no other session reads it.
Sessions == 1..MaxSessions

Idle ==
  [op |-> "idle", customer_id |-> 0, transaction_type |-> "", b |-> Row(Fields0, 0)]

(* ------------------------------- seed ----------------------------------- *)
\* A database like the one the integration test seeds, with amounts scaled
\* down: two accounts, two bank accounts, two jewelry items in stock.
\* NECK-001 weighs 1.234 g, so that its weight x purity (1.232766) has more
\* than four decimals; RING-001 gives 4.125 exactly.
SeedCustomers ==
  <<[full_name |-> "Collaborator Akbari",
     initial_money_balance |-> 0, initial_gold_balance_grams |-> -50000000],
    [full_name |-> "Customer Mohammadi",
     initial_money_balance |-> -5000000, initial_gold_balance_grams |-> 20000000]>>

SeedBankAccounts ==
  <<[account_name |-> "Main Business Account"], [account_name |-> "Petty Cash"]>>

SeedJewelryItems ==
  <<[jewelry_code |-> "RING-001", weight_grams |-> 550000000,
     purity |-> 75000000, status |-> IN_STOCK],
    [jewelry_code |-> "NECK-001", weight_grams |-> 123400000,
     purity |-> 99900000, status |-> IN_STOCK]>>

(* ------------------------------ inputs --------------------------------- *)
\* Amounts are in 10^-8: 30000000 is 0.3 (grams, or money units).
PayloadTrade ==
  [EmptyDetails EXCEPT !.purity = Some(Num(99900000)),
                       !.weight_grams = Some(Num(30000000)),
                       !.price = Some(Num(29004900))]

PayloadRaw ==
  [EmptyDetails EXCEPT !.weight_grams = Some(Num(12345600)),
                       !.purity = Some(Num(75000000))]

PayloadMoney(bank_account_id) ==
  [EmptyDetails EXCEPT !.amount = Some(Num(10006000)),
                       !.bank_account_id = Some(bank_account_id)]

PayloadJewelry(jewelry_code) ==
  [EmptyDetails EXCEPT !.jewelry_code = Some(jewelry_code)]

PayloadNoBank == [EmptyDetails EXCEPT !.amount = Some(Num(10006000))]

PayloadBadNumber == [PayloadTrade EXCEPT !.weight_grams = Some(NotANumber)]

PayloadNotADict == [EmptyDetails EXCEPT !.is_dict = FALSE]

\* Every id the seeded table holds, and one that names nothing.
BankIdInputs == 1..(Len(SeedBankAccounts) + 1)

JewelryCodeInputs == {"RING-001", "NECK-001", "NONE-000"}

TypeInputs == TransactionType \cup {"Invalid Type"}

\* The payloads tried with a transaction type: the well-formed ones of the
\* type, and the malformed ones.
PayloadInputs(tx_type) ==
  {EmptyDetails, PayloadNotADict}
  \cup (IF tx_type \in {SELL_RAW_GOLD, BUY_RAW_GOLD}
        THEN {PayloadTrade, PayloadBadNumber} ELSE {})
  \cup (IF tx_type \in {RECEIVE_RAW_GOLD, GIVE_RAW_GOLD}
        THEN {PayloadRaw, PayloadBadNumber} ELSE {})
  \cup (IF tx_type \in MONEY_TYPES
        THEN {PayloadMoney(b) : b \in BankIdInputs} \cup {PayloadNoBank} ELSE {})
  \cup (IF tx_type \in JEWELRY_TYPES
        THEN {PayloadJewelry(c) : c \in JewelryCodeInputs} ELSE {})
  \cup (IF tx_type \notin TransactionType THEN {PayloadTrade} ELSE {})

Event(c, t, d) == [customer_id |-> c, transaction_type |-> t, details |-> d]

\* Every type with every payload, for the first account and for the id that
\* names no account.
EventsFull ==
  UNION {{Event(c, t, d) : c \in {1, Len(SeedCustomers) + 1}, d \in PayloadInputs(t)} :
           t \in TypeInputs}

\* For the second account the partial-payment scenario (the customer sells
\* raw gold, the business sends money) and a consignment of RING-001.
EventsSecond ==
  {Event(2, SELL_RAW_GOLD, PayloadTrade),
   Event(2, SEND_MONEY, PayloadMoney(1)),
   Event(2, RECEIVE_JEWELRY, PayloadJewelry("RING-001")),
   Event(2, GIVE_JEWELRY, PayloadJewelry("RING-001"))}

\* Payloads with the shape of another variant than the declared type: the
\* trade shape (with a price) under Receive Raw Gold, the raw-gold shape
\* (without a price) under Sell Raw Gold.
EventsOtherShape ==
  {Event(1, RECEIVE_RAW_GOLD, PayloadTrade),
   Event(1, SELL_RAW_GOLD, PayloadRaw)}

Events == EventsFull \cup EventsSecond \cup EventsOtherShape

\* The request bodies as TransactionCreate validates them.
Validated == [body \in Events |-> TransactionCreate(body)]

(* ------------------------------- Init ----------------------------------- *)
\* No execute_plan request is being served.
NoPlan ==
  [pc |-> "idle", plan |-> <<>>, i |-> 1, results |-> <<>>, errors |-> <<>>, calls |-> <<>>]

Init ==
  /\ adapter \in {"sqlalchemy", "mock"}
  /\ customers = SeedCustomers
  /\ bank_accounts = SeedBankAccounts
  /\ jewelry_items = SeedJewelryItems
  /\ transactions = <<>>
  /\ _transaction_log = <<>>
  /\ pending = [s \in Sessions |-> Idle]
  /\ _gold_price = DEFAULT_GOLD_USD_PER_GRAM
  /\ plan_call = NoPlan
  /\ last = NoCall

(* ------------------------------ actions -------------------------------- *)
\* SqlAlchemyAdapter.execute_transaction(transaction_details).  The method
\* knows nothing of its caller: what becomes of plan_call is stated where
\* the call is made.
SqlAlchemyAdapter_execute_transaction(td, utcnow) ==
  LET op == "SqlAlchemyAdapter.execute_transaction"
      b == sql_body(td)
  IN /\ adapter \in {"sqlalchemy", "both"}
     /\ UNCHANGED <<adapter, customers, bank_accounts, _transaction_log, pending, _gold_price>>
     /\ \/ /\ b.out = "row"
           /\ Len(transactions) < MaxTransactions
           /\ \E storage \in StorageOutcomes :
                LET db == IF storage = "commit raises"
                          THEN RolledBack(b)
                          ELSE Committed(td.customer_id, td.transaction_type, b, utcnow)
                IN /\ transactions' = db.transactions
                   /\ jewelry_items' = db.jewelry_items
                   /\ last' = Call(td.customer_id,
                                    IF storage = "ok"
                                    THEN SuccessResult(op, Len(transactions) + 1)
                                    ELSE sql_except(op, "OperationalError"))
        \/ /\ b.out = "return"
           /\ UNCHANGED <<transactions, jewelry_items>>
           /\ last' = Call(td.customer_id, ErrorResult(op, b.message))
        \/ /\ b.out = "raise"
           /\ transactions' = RolledBack(b).transactions
           /\ jewelry_items' = RolledBack(b).jewelry_items
           /\ last' = Call(td.customer_id, sql_except(op, b.message))

\* POST /transactions: create_transaction(payload), behind the validation
\* of the request body.
create_transaction(body, utcnow) ==
  LET op == "create_transaction"
      payload == Validated[body]
      validated == [customer_id |-> body.customer_id,
                    transaction_type |-> body.transaction_type,
                    details |-> payload.details]
  IN /\ adapter = "sqlalchemy"
     /\ UNCHANGED <<plan_call, adapter, customers, bank_accounts, _transaction_log, pending, _gold_price>>
     /\ IF ~payload.ok
        THEN /\ UNCHANGED <<transactions, jewelry_items>>
             /\ last' = Call(body.customer_id,
                              [ErrorResult(op, "Validation error") EXCEPT !.status_code = 422])
        ELSE LET b == http_body(validated)
             IN \/ /\ b.out = "row"
                   /\ Len(transactions) < MaxTransactions
                   /\ \E storage \in StorageOutcomes :
                        LET db == IF storage = "commit raises"
                                  THEN RolledBack(b)
                                  ELSE Committed(body.customer_id, body.transaction_type, b,
                                                 utcnow)
                        IN /\ transactions' = db.transactions
                           /\ jewelry_items' = db.jewelry_items
                           /\ last' = Call(body.customer_id,
                                            IF storage = "ok"
                                            THEN Created(op, Len(transactions) + 1)
                                            ELSE Raised(op, 500, "OperationalError"))
                \/ /\ b.out = "raise"
                   /\ transactions' = RolledBack(b).transactions
                   /\ jewelry_items' = RolledBack(b).jewelry_items
                   /\ last' = Call(body.customer_id,
                                    [ErrorResult(op, b.message) EXCEPT !.status_code = b.status_code])

\* MockAccountingAdapter._accounts as __init__ builds it: a fixed table,
\* here the two of its thirty accounts (keyed "c1" and "u2" in the source)
\* that the customers table also holds, with the opening balances of that
\* table.
_accounts ==
  <<[id |-> 1, name |-> "Collaborator Akbari", type |-> "collaborator",
     balance |-> [rial |-> SeedCustomers[1].initial_money_balance,
                  gold_gr |-> SeedCustomers[1].initial_gold_balance_grams,
                  usd |-> 0]],
    [id |-> 2, name |-> "Customer Mohammadi", type |-> "customer",
     balance |-> [rial |-> SeedCustomers[2].initial_money_balance,
                  gold_gr |-> SeedCustomers[2].initial_gold_balance_grams,
                  usd |-> 0]]>>

\* MockAccountingAdapter.get_accounts(account_type)
MockAccountingAdapter_get_accounts(account_type) ==
  LET kept(acc) == acc.type = account_type
  IN IF account_type = "all" THEN _accounts ELSE SelectSeq(_accounts, kept)

\* MockAccountingAdapter.get_account_balance(account_id): the balance the
\* table holds, <<>> for the empty dict of an id the table lacks.  No method
\* of the class assigns to _accounts.
MockAccountingAdapter_get_account_balance(account_id) ==
  IF account_id \in DOMAIN _accounts THEN <<_accounts[account_id].balance>> ELSE <<>>

\* str(uuid.uuid4()): an identifier no earlier call drew (a collision of two
\* random 122-bit values is not modelled).
uuid4 == Len(_transaction_log) + 1

\* MockAccountingAdapter.execute_transaction(transaction_details)
MockAccountingAdapter_execute_transaction(td) ==
  /\ adapter \in {"mock", "both"}
  /\ Len(_transaction_log) < MaxMockLog
  /\ LET transaction_id == uuid4
     IN
       /\ _transaction_log' =
            Append(_transaction_log,
                   [transaction_id |-> transaction_id,
                    customer_id |-> td.customer_id,
                    transaction_type |-> td.transaction_type,
                    details |-> td.details])
       /\ last' = Call(td.customer_id,
                        SuccessResult("MockAccountingAdapter.execute_transaction",
                                      transaction_id))
  /\ UNCHANGED <<plan_call, adapter, customers, bank_accounts, jewelry_items, transactions, pending,
                 _gold_price>>

Next ==
  \/ \E td \in Events :
       SqlAlchemyAdapter_execute_transaction(td, SteadyReading) /\ UNCHANGED plan_call
  \/ \E body \in Events : create_transaction(body, SteadyReading)
  \/ \E td \in Events : MockAccountingAdapter_execute_transaction(td)

Spec == Init /\ [][Next]_vars

(* ------------------ the ledger under the wall clock -------------------- *)
\* Spec follows the runs in which the clock has advanced between two
\* appends; no projection but get_customer_transactions reads
\* transaction_date.  SpecClock follows a few events of the SQL-backed
\* implementations with every reading the wall clock can give.
EventsClock ==
  {Event(1, RECEIVE_RAW_GOLD, PayloadRaw),
   Event(1, SEND_MONEY, PayloadMoney(1)),
   Event(1, RECEIVE_JEWELRY, PayloadJewelry("RING-001")),
   Event(2, SELL_RAW_GOLD, PayloadTrade),
   Event(1, SELL_RAW_GOLD, PayloadBadNumber),
   Event(Len(SeedCustomers) + 1, SELL_RAW_GOLD, PayloadTrade)}

InitClock == Init /\ adapter = "sqlalchemy"

NextClock ==
  \/ \E td \in EventsClock, utcnow \in WallReadings :
       SqlAlchemyAdapter_execute_transaction(td, utcnow) /\ UNCHANGED plan_call
  \/ \E body \in EventsClock, utcnow \in WallReadings :
       create_transaction(body, utcnow)

SpecClock == InitClock /\ [][NextClock]_vars

(* ------------------------ concurrent callers --------------------------- *)
\* The two SQL-backed handlers step by step, each caller in its own session:
\* the body reads the committed tables and leaves its row and its status
\* change pending in the session; db.commit() makes both visible at once,
\* or fails and drops both.  Other callers run in between.
EventsSessions ==
  {Event(1, RECEIVE_JEWELRY, PayloadJewelry("RING-001")),
   Event(1, GIVE_JEWELRY, PayloadJewelry("RING-001")),
   Event(1, RECEIVE_JEWELRY, PayloadJewelry("NECK-001")),
   Event(2, SELL_RAW_GOLD, PayloadTrade),
   Event(1, SEND_MONEY, PayloadMoney(1)),
   Event(1, SELL_RAW_GOLD, PayloadBadNumber),
   Event(1, RECEIVE_JEWELRY, PayloadJewelry("NONE-000")),
   Event(Len(SeedCustomers) + 1, SELL_RAW_GOLD, PayloadTrade)}

\* Mutant: the status change is committed on its own, ahead of the row.
Session_body_commits_status(s, op, ev) ==
  LET route == op = "create_transaction"
      payload == Validated[ev]
      b == IF route
           THEN http_body([customer_id |-> ev.customer_id,
                           transaction_type |-> ev.transaction_type,
                           details |-> payload.details])
           ELSE sql_body(ev)
  IN /\ adapter = "sqlalchemy"
     /\ pending[s].op = "idle"
     /\ ~route \/ payload.ok
     /\ b.out = "row"
     /\ pending' = [pending EXCEPT ![s] =
                      [op |-> op, customer_id |-> ev.customer_id,
                       transaction_type |-> ev.transaction_type, b |-> b]]
     /\ jewelry_items' = StatusWritten(b.consigned)
     /\ UNCHANGED <<plan_call, adapter, customers, bank_accounts, _transaction_log, transactions, last,
                    _gold_price>>

\* A handler from its entry up to db.add(tx): validation of the request
\* body (route), lookups, valuation, jewelry.status = ... in the session.
\* A call that fails here ends here, with nothing pending.
Session_body(s, op, ev) ==
  LET route == op = "create_transaction"
      payload == Validated[ev]
      b == IF route
           THEN http_body([customer_id |-> ev.customer_id,
                           transaction_type |-> ev.transaction_type,
                           details |-> payload.details])
           ELSE sql_body(ev)
  IN /\ adapter = "sqlalchemy"
     /\ pending[s].op = "idle"
     /\ UNCHANGED <<plan_call, adapter, customers, bank_accounts, _transaction_log, transactions,
                    jewelry_items, _gold_price>>
     /\ IF route /\ ~payload.ok
        THEN /\ UNCHANGED pending
             /\ last' = Call(ev.customer_id,
                              [ErrorResult(op, "Validation error") EXCEPT !.status_code = 422])
        ELSE \/ /\ b.out = "row"
                /\ pending' = [pending EXCEPT ![s] =
                                 [op |-> op, customer_id |-> ev.customer_id,
                                  transaction_type |-> ev.transaction_type, b |-> b]]
                /\ UNCHANGED last
             \/ /\ b.out = "return"
                /\ UNCHANGED pending
                /\ last' = Call(ev.customer_id, ErrorResult(op, b.message))
             \/ /\ b.out = "raise"
                /\ UNCHANGED pending
                /\ last' = Call(ev.customer_id,
                                 IF route
                                 THEN [ErrorResult(op, b.message)
                                         EXCEPT !.status_code = b.status_code]
                                 ELSE sql_except(op, b.message))

\* db.commit(); db.refresh(tx), and the handler's way out.
Session_commit(s, utcnow) ==
  LET p == pending[s]
      route == p.op = "create_transaction"
  IN /\ p.op # "idle"
     /\ UNCHANGED <<plan_call, adapter, customers, bank_accounts, _transaction_log, _gold_price>>
     /\ pending' = [pending EXCEPT ![s] = Idle]
     /\ \E storage \in StorageOutcomes :
          LET db == IF storage = "commit raises"
                    THEN RolledBack(p.b)
                    ELSE Committed(p.customer_id, p.transaction_type, p.b, utcnow)
          IN /\ storage = "commit raises" \/ Len(transactions) < MaxTransactions
             /\ transactions' = db.transactions
             /\ jewelry_items' = db.jewelry_items
             /\ last' = Call(p.customer_id,
                              IF storage = "ok"
                              THEN IF route THEN Created(p.op, Len(transactions) + 1)
                                   ELSE SuccessResult(p.op, Len(transactions) + 1)
                              ELSE IF route THEN Raised(p.op, 500, "OperationalError")
                                   ELSE sql_except(p.op, "OperationalError"))

InitSessions == Init /\ adapter = "sqlalchemy"

NextSessions ==
  \/ \E s \in Sessions, ev \in EventsSessions :
       Session_body(s, "SqlAlchemyAdapter.execute_transaction", ev)
  \/ \E s \in Sessions, ev \in EventsSessions :
       Session_body(s, "create_transaction", ev)
  \/ \E s \in Sessions : Session_commit(s, SteadyReading)

SpecSessions == InitSessions /\ [][NextSessions]_vars

(* ------------------- entities, prices and reads ------------------------ *)
\* The SQL-backed service with everything else its callers can do between
\* two transactions: create a customer, a bank account or a jewelry item,
\* update the gold price, and read any projection.
EventsService ==
  {Event(1, RECEIVE_JEWELRY, PayloadJewelry("RING-001")),
   Event(1, GIVE_JEWELRY, PayloadJewelry("RING-001")),
   Event(1, RECEIVE_JEWELRY, PayloadJewelry("NONE-000")),
   Event(1, SEND_MONEY, PayloadMoney(Len(SeedBankAccounts) + 1)),
   Event(1, RECEIVE_RAW_GOLD, PayloadRaw),
   Event(Len(SeedCustomers) + 1, SELL_RAW_GOLD, PayloadTrade)}

\* CustomerCreate bodies: an opening money balance of 0.10006 or none.
CustomerCreateInputs ==
  {[full_name |-> "Customer Mohammadi", initial_money_balance |-> m,
    initial_gold_balance_grams |-> 0] : m \in {0, 10006000}}

BankAccountCreateInputs == {[account_name |-> "Petty Cash"]}

\* JewelryItemCreate bodies: a new code or one the table holds, with the
\* default status or the consignment marker.
JewelryItemCreateInputs ==
  {[jewelry_code |-> code, weight_grams |-> 20000000, purity |-> 75000000,
    status |-> status] : code \in {"NONE-000", "RING-001"}, status \in {IN_STOCK, CONSIGNMENT}}

PriceInputs == {DEFAULT_GOLD_USD_PER_GRAM, DEFAULT_GOLD_USD_PER_GRAM + 1}

\* What a call that is no transaction leaves in last.
Answered(op, status, status_code) ==
  [op |-> op, customer_id |-> 0, status |-> status, status_code |-> status_code,
   message |-> "", transaction_id |-> None]

\* POST /customers
create_customer(payload) ==
  /\ adapter = "sqlalchemy"
  /\ Len(customers) < Len(SeedCustomers) + MaxCreated
  /\ \E storage \in StorageOutcomes :
       /\ customers' =
            IF storage = "commit raises" THEN customers
            ELSE Append(customers,
                        [full_name |-> payload.full_name,
                         initial_money_balance |-> Numeric4(payload.initial_money_balance),
                         initial_gold_balance_grams |->
                           Numeric4(payload.initial_gold_balance_grams)])
       /\ last' = IF storage = "ok" THEN Answered("create_customer", "success", 200)
                  ELSE Raised("create_customer", 500, "OperationalError")
  /\ UNCHANGED <<plan_call, adapter, bank_accounts, jewelry_items, transactions, _transaction_log,
                 pending, _gold_price>>

\* POST /bank-accounts
create_bank_account(payload) ==
  /\ adapter = "sqlalchemy"
  /\ Len(bank_accounts) < Len(SeedBankAccounts) + MaxCreated
  /\ \E storage \in StorageOutcomes :
       /\ bank_accounts' =
            IF storage = "commit raises" THEN bank_accounts
            ELSE Append(bank_accounts, [account_name |-> payload.account_name])
       /\ last' = IF storage = "ok" THEN Answered("create_bank_account", "success", 200)
                  ELSE Raised("create_bank_account", 500, "OperationalError")
  /\ UNCHANGED <<plan_call, adapter, customers, jewelry_items, transactions, _transaction_log,
                 pending, _gold_price>>

\* POST /items/jewelry: jewelry_code is unique, so the INSERT of a code the
\* table holds fails at the commit.
create_jewelry_item(payload) ==
  /\ adapter = "sqlalchemy"
  /\ Len(jewelry_items) < Len(SeedJewelryItems) + MaxCreated
  /\ \E storage \in StorageOutcomes :
       LET taken == \E i \in 1..Len(jewelry_items) :
                      jewelry_items[i].jewelry_code = payload.jewelry_code
           inserted == ~taken /\ storage # "commit raises"
       IN /\ jewelry_items' =
               IF inserted
               THEN Append(jewelry_items,
                           [jewelry_code |-> payload.jewelry_code,
                            weight_grams |-> Numeric4(payload.weight_grams),
                            purity |-> Numeric4(payload.purity),
                            status |-> payload.status])
               ELSE jewelry_items
          /\ last' = IF taken THEN Raised("create_jewelry_item", 500, "IntegrityError")
                     ELSE IF storage = "ok"
                     THEN Answered("create_jewelry_item", "success", 200)
                     ELSE Raised("create_jewelry_item", 500, "OperationalError")
  /\ UNCHANGED <<plan_call, adapter, customers, bank_accounts, transactions, _transaction_log,
                 pending, _gold_price>>

\* SqlAlchemyAdapter.update_gold_price(new_price), as the price updater of
\* main.py calls it.
update_gold_price(new_price) ==
  /\ adapter = "sqlalchemy"
  /\ _gold_price' = new_price
  /\ last' = Answered("update_gold_price", "success", 0)
  /\ UNCHANGED <<plan_call, adapter, customers, bank_accounts, jewelry_items, transactions,
                 _transaction_log, pending>>

\* SqlAlchemyAdapter.get_live_gold_price()
get_live_gold_price == _gold_price

\* The read-only calls: the GET routes of customers.py and bank_accounts.py,
\* and get_accounts, get_account_balance and get_live_gold_price of the
\* adapter.
ReadOps ==
  {"list_customers", "get_customer", "get_customer_transactions",
   "get_customer_balance_raw_gold_by_purity", "get_customer_balance_jewelry",
   "list_bank_accounts", "SqlAlchemyAdapter.get_accounts",
   "SqlAlchemyAdapter.get_account_balance", "SqlAlchemyAdapter.get_live_gold_price"}

\* Mutant: the jewelry report writes the custody it derived back to the
\* items it lists.
Read_writes_back(op) ==
  /\ adapter = "sqlalchemy"
  /\ op \in ReadOps
  /\ last' = Answered(op, "success", 200)
  /\ jewelry_items' =
       IF op = "get_customer_balance_jewelry"
       THEN [i \in 1..Len(jewelry_items) |->
               [jewelry_items[i] EXCEPT !.status =
                  IF \E k \in 1..Len(transactions) : transactions[k].item_id = Some(i)
                  THEN "Settled" ELSE @]]
       ELSE jewelry_items
  /\ UNCHANGED <<plan_call, adapter, customers, bank_accounts, transactions,
                 _transaction_log, pending, _gold_price>>

\* A read-only call: queries only, no add, no assignment to a mapped
\* object, no commit.
Read(op) ==
  /\ adapter = "sqlalchemy"
  /\ op \in ReadOps
  /\ last' = Answered(op, "success", 200)
  /\ UNCHANGED <<plan_call, adapter, customers, bank_accounts, jewelry_items, transactions,
                 _transaction_log, pending, _gold_price>>

InitService == Init /\ adapter = "sqlalchemy"

NextService ==
  \/ \E td \in EventsService :
       SqlAlchemyAdapter_execute_transaction(td, SteadyReading) /\ UNCHANGED plan_call
  \/ \E body \in EventsService : create_transaction(body, SteadyReading)
  \/ \E payload \in CustomerCreateInputs : create_customer(payload)
  \/ \E payload \in BankAccountCreateInputs : create_bank_account(payload)
  \/ \E payload \in JewelryItemCreateInputs : create_jewelry_item(payload)
  \/ \E new_price \in PriceInputs : update_gold_price(new_price)
  \/ \E op \in ReadOps : Read(op)

SpecService == InitService /\ [][NextService]_vars

(* ------------------------ edits of the catalog ------------------------- *)
\* The SQL-backed handlers over a catalog whose records are edited between
\* two transactions.  No route of the service edits a JewelryItem; the edit
\* stands for a change made to the table by other means.
EventsCatalog ==
  {Event(1, RECEIVE_JEWELRY, PayloadJewelry("RING-001")),
   Event(1, GIVE_JEWELRY, PayloadJewelry("RING-001")),
   Event(1, RECEIVE_JEWELRY, PayloadJewelry("NECK-001")),
   Event(2, GIVE_JEWELRY, PayloadJewelry("RING-001")),
   Event(1, RECEIVE_JEWELRY, PayloadJewelry("NONE-000")),
   Event(1, RECEIVE_RAW_GOLD, PayloadRaw)}

\* The weights and purities an edit may set: 0.2 g or 0.3333 g, at 0.75 or 0.5.
WeightInputs == {20000000, 33330000}

PurityInputs == {75000000, 50000000}

edit_jewelry_item(item, weight_grams, purity) ==
  /\ adapter = "sqlalchemy"
  /\ item \in 1..Len(jewelry_items)
  /\ jewelry_items' = [jewelry_items EXCEPT ![item].weight_grams = weight_grams,
                                             ![item].purity = purity]
  /\ last' = Answered("edit_jewelry_item", "success", 0)
  /\ UNCHANGED <<plan_call, adapter, customers, bank_accounts, transactions, _transaction_log,
                 pending, _gold_price>>

InitCatalog == Init /\ adapter = "sqlalchemy"

NextCatalog ==
  \/ \E td \in EventsCatalog :
       SqlAlchemyAdapter_execute_transaction(td, SteadyReading) /\ UNCHANGED plan_call
  \/ \E body \in EventsCatalog : create_transaction(body, SteadyReading)
  \/ \E item \in 1..Len(SeedJewelryItems), weight_grams \in WeightInputs,
         purity \in PurityInputs :
       edit_jewelry_item(item, weight_grams, purity)

SpecCatalog == InitCatalog /\ [][NextCatalog]_vars

(* ------------------ the two adapters side by side ---------------------- *)
\* One MockAccountingAdapter and one SqlAlchemyAdapter over the same
\* accounts, each call made on the mock and then, with the same
\* transaction_details, on the SQL-backed adapter.
InitBoth ==
  /\ adapter = "both"
  /\ customers = SeedCustomers
  /\ bank_accounts = SeedBankAccounts
  /\ jewelry_items = SeedJewelryItems
  /\ transactions = <<>>
  /\ _transaction_log = <<>>
  /\ pending = [s \in Sessions |-> Idle]
  /\ _gold_price = DEFAULT_GOLD_USD_PER_GRAM
  /\ plan_call = NoPlan
  /\ last = NoCall

\* The transaction_details of the mock's most recent call, as its log keeps
\* them.
LoggedCall ==
  LET record == _transaction_log[Len(_transaction_log)]
  IN Event(record.customer_id, record.transaction_type, record.details)

NextBoth ==
  \/ /\ last.op # "MockAccountingAdapter.execute_transaction"
     /\ \E td \in Events : MockAccountingAdapter_execute_transaction(td)
  \/ /\ last.op = "MockAccountingAdapter.execute_transaction"
     /\ SqlAlchemyAdapter_execute_transaction(LoggedCall, SteadyReading)
     /\ UNCHANGED plan_call

SpecBoth == InitBoth /\ [][NextBoth]_vars

(* ----------------------- main.py: execute_plan -------------------------- *)
\* POST /execute-plan over the SQL-backed adapter.  The handler is a
\* coroutine without an await: it serves one request from the first step
\* of the loop to the return with nothing of the process running in
\* between.
\* The items of a plan: the wrapper process_event builds around a
\* transaction ({"step", "action", "description", "details": tx}), or the
\* transaction itself.
Wrapped(tx) == [wrapper |-> TRUE, transaction |-> tx]

Unwrapped(tx) == [wrapper |-> FALSE, transaction |-> tx]

\* A payload read as transaction_details: it has none of the keys
\* customer_id, transaction_type and details, so the adapter gets None
\* (0 here), None and the default {}.
PayloadAsTransaction(payload) == Event(0, "None", EmptyDetails)

\* if "details" in transaction and isinstance(transaction["details"], dict):
\*     tx_data = transaction["details"]  else:  tx_data = transaction
\* The wrapper's details is the transaction; a transaction's own details is
\* its payload.
tx_data(transaction) ==
  IF transaction.wrapper THEN transaction.transaction
  ELSE IF transaction.transaction.details.is_dict
       THEN PayloadAsTransaction(transaction.transaction.details)
       ELSE transaction.transaction

EventsPlan ==
  {Event(1, SELL_RAW_GOLD, PayloadTrade),
   Event(1, RECEIVE_JEWELRY, PayloadJewelry("RING-001")),
   Event(2, SEND_MONEY, PayloadMoney(Len(SeedBankAccounts) + 1)),
   Event(1, BUY_RAW_GOLD, PayloadBadNumber),
   Event(1, GIVE_RAW_GOLD, PayloadNotADict)}

PlanItems ==
  {Wrapped(tx) : tx \in EventsPlan}
  \cup {Unwrapped(Event(2, SELL_RAW_GOLD, PayloadTrade)),
        Unwrapped(Event(1, GIVE_RAW_GOLD, PayloadNotADict))}

\* The plans of a request: up to MaxPlan items.
MaxPlan == 2

Plans == UNION {[1..n -> PlanItems] : n \in 0..MaxPlan}

\* The request arrives: results = [], errors = [].
execute_plan_begin(plan) ==
  /\ adapter = "sqlalchemy"
  /\ plan_call.pc \in {"idle", "done"}
  /\ plan_call' = [NoPlan EXCEPT !.pc = "loop", !.plan = plan]
  /\ UNCHANGED <<adapter, customers, bank_accounts, jewelry_items, transactions,
                 _transaction_log, pending, _gold_price, last>>

\* One turn of the loop: unwrap the item, result =
\* adapter.execute_transaction(tx_data), file the result under errors or
\* results.  calls keeps the arguments of the adapter calls made so far.
execute_plan_step ==
  /\ plan_call.pc = "loop"
  /\ plan_call.i <= Len(plan_call.plan)
  /\ LET td == tx_data(plan_call.plan[plan_call.i])
     IN /\ SqlAlchemyAdapter_execute_transaction(td, SteadyReading)
        /\ plan_call' =
             IF last'.status = "error"
             THEN [plan_call EXCEPT !.i = @ + 1,
                                    !.calls = Append(@, td),
                                    !.errors = Append(@, [transaction |-> td,
                                                          error |-> last'.message])]
             ELSE [plan_call EXCEPT !.i = @ + 1,
                                    !.calls = Append(@, td),
                                    !.results = Append(@, [transaction |-> td,
                                                           result |-> last'])]

\* The loop is over: the response, its status from the two lists.
execute_plan_return ==
  /\ plan_call.pc = "loop"
  /\ plan_call.i > Len(plan_call.plan)
  /\ plan_call' = [plan_call EXCEPT !.pc = "done"]
  /\ last' = [op |-> "execute_plan", customer_id |-> 0,
              status |-> IF plan_call.errors # <<>>
                         THEN (IF plan_call.results # <<>> THEN "partial_success" ELSE "error")
                         ELSE "success",
              status_code |-> 200, message |-> "", transaction_id |-> None]
  /\ UNCHANGED <<adapter, customers, bank_accounts, jewelry_items, transactions,
                 _transaction_log, pending, _gold_price>>

InitPlan == Init /\ adapter = "sqlalchemy"

NextPlan ==
  \/ \E plan \in Plans : execute_plan_begin(plan)
  \/ execute_plan_step
  \/ execute_plan_return

SpecPlan == InitPlan /\ [][NextPlan]_vars

(* ======================================================================= *)
(*                               Claims                                    *)
(* ======================================================================= *)
\* The sum of a column over the ledger rows of customer c, row by row in
\* append order.
RECURSIVE LedgerSum(_, _, _)
LedgerSum(rows, c, column) ==
  IF rows = <<>> THEN 0
  ELSE LedgerSum(SubSeq(rows, 1, Len(rows) - 1), c, column)
       + (IF rows[Len(rows)].customer_id = c THEN rows[Len(rows)][column] ELSE 0)

\* C1: in every reachable state, for every customer C the money balance
\* reported by the route and by the adapter is initial_money_balance(C) plus
\* the sum of money_amount over the ledger rows of C, and the gold balance
\* is initial_gold_balance_grams(C) plus the sum of gold_amount_grams over
\* the same rows (so a customer without rows reports its initial balances).
C1_BalanceIsInitialPlusLedger ==
  \A c \in 1..Len(customers) :
    LET money == customers[c].initial_money_balance
                 + LedgerSum(transactions, c, "money_amount")
        gold == customers[c].initial_gold_balance_grams
                + LedgerSum(transactions, c, "gold_amount_grams")
    IN /\ _customer_response(DB, c).money_balance = money
       /\ _customer_response(DB, c).gold_balance_grams = gold
       /\ get_account_balance(DB, c).rial = money
       /\ get_account_balance(DB, c).gold_gr = gold

\* C1 witness: the second account sold raw gold and was then sent money
\* (balances 0.1399 and -0.1), while the first account has no row and
\* reports its initial balances.
C1_Witness ==
  /\ Len(transactions) = 2
  /\ transactions[1].customer_id = 2 /\ transactions[1].transaction_type = SELL_RAW_GOLD
  /\ transactions[2].customer_id = 2 /\ transactions[2].transaction_type = SEND_MONEY
  /\ _customer_response(DB, 2).money_balance = 13990000
  /\ get_account_balance(DB, 2).gold_gr = -10000000
  /\ _customer_response(DB, 1).money_balance = 0
  /\ _customer_response(DB, 1).gold_balance_grams = -50000000

(* ---- steps: an event accepted or rejected by either implementation ---- *)
\* This step is a call of execute_transaction or create_transaction on ev.
Called(ev) ==
  /\ last'.customer_id = ev.customer_id
  /\ \/ /\ last'.op = "SqlAlchemyAdapter.execute_transaction"
        /\ SqlAlchemyAdapter_execute_transaction(ev, SteadyReading)
     \/ /\ last'.op = "create_transaction"
        /\ create_transaction(ev, SteadyReading)

\* ... that was accepted (success result, 201 response).
Accepted(ev) == last'.status = "success" /\ Called(ev)

\* The row at the end of the ledger after the step.
NewRow == transactions'[Len(transactions')]

\* The step appended exactly one row and left the earlier rows alone.
AppendedOne ==
  /\ Len(transactions') = Len(transactions) + 1
  /\ SubSeq(transactions', 1, Len(transactions)) = transactions

\* The payload has exactly the keys purity, weight_grams and price, all numbers.
IsTradePayload(d) ==
  /\ d.is_dict
  /\ IsFloat(d.purity) /\ IsFloat(d.weight_grams) /\ IsFloat(d.price)
  /\ d.amount = None /\ d.bank_account_id = None /\ d.jewelry_code = None

\* The Sell / Buy Raw Gold events with such a payload.
TradeEvents ==
  {ev \in Events : /\ ev.transaction_type \in {SELL_RAW_GOLD, BUY_RAW_GOLD}
                   /\ IsTradePayload(ev.details)}

SignOf(tx_type) ==
  IF tx_type \in {SELL_RAW_GOLD, RECEIVE_MONEY, RECEIVE_RAW_GOLD, RECEIVE_JEWELRY}
  THEN 1 ELSE -1

\* C2 as stated: every accepted Sell Raw Gold event with payload {purity,
\* weight_grams, price} appends a row with money_amount = +price and
\* gold_amount_grams = -weight_grams, every accepted Buy Raw Gold event a row
\* with money_amount = -price and gold_amount_grams = +weight_grams; the row
\* records the payload's price, weight_grams and purity and has no
\* bank_account_id and no item_id.
C2_AsStated ==
  [][\A ev \in TradeEvents :
       Accepted(ev)
       => /\ AppendedOne
          /\ NewRow.transaction_type = ev.transaction_type
          /\ NewRow.money_amount = SignOf(ev.transaction_type) * ev.details.price[1].n
          /\ NewRow.gold_amount_grams =
               -SignOf(ev.transaction_type) * ev.details.weight_grams[1].n
          /\ NewRow.price = Some(ev.details.price[1].n)
          /\ NewRow.weight_grams = Some(ev.details.weight_grams[1].n)
          /\ NewRow.purity = Some(ev.details.purity[1].n)
          /\ NewRow.bank_account_id = None
          /\ NewRow.item_id = None]_vars

\* C2 amended: the same, with every amount as the Numeric(_, 4) column keeps
\* it: money_amount is +price (Sell) or -price (Buy) rounded to four decimal
\* places, gold_amount_grams is -weight_grams (Sell) or +weight_grams (Buy)
\* rounded to four decimal places, and the recorded price, weight_grams and
\* purity are the payload's values rounded to four decimal places.
C2_SellBuyRawGold ==
  [][\A ev \in TradeEvents :
       Accepted(ev)
       => /\ AppendedOne
          /\ NewRow.transaction_type = ev.transaction_type
          /\ NewRow.customer_id = ev.customer_id
          /\ NewRow.money_amount =
               SignOf(ev.transaction_type) * Numeric4(ev.details.price[1].n)
          /\ NewRow.gold_amount_grams =
               -SignOf(ev.transaction_type) * Numeric4(ev.details.weight_grams[1].n)
          /\ NewRow.price = Some(Numeric4(ev.details.price[1].n))
          /\ NewRow.weight_grams = Some(Numeric4(ev.details.weight_grams[1].n))
          /\ NewRow.purity = Some(Numeric4(ev.details.purity[1].n))
          /\ NewRow.bank_account_id = None
          /\ NewRow.item_id = None]_vars

\* C2 witness: a Sell Raw Gold of 0.3 g at 0.999 for 0.290049 was accepted
\* and then a Buy Raw Gold with the same payload; the rows carry +0.29 / -0.3
\* and -0.29 / +0.3.
C2_Witness ==
  /\ last.status = "success"
  /\ Len(transactions) = 2
  /\ transactions[1].transaction_type = SELL_RAW_GOLD
  /\ transactions[1].money_amount = 29000000
  /\ transactions[1].gold_amount_grams = -30000000
  /\ transactions[2].transaction_type = BUY_RAW_GOLD
  /\ transactions[2].money_amount = -29000000
  /\ transactions[2].gold_amount_grams = 30000000
  /\ transactions[2].price = Some(29000000)
  /\ transactions[2].purity = Some(99900000)

\* The payload has exactly the keys amount and bank_account_id.
IsMoneyPayload(d) ==
  /\ d.is_dict /\ IsFloat(d.amount) /\ d.bank_account_id # None
  /\ d.purity = None /\ d.weight_grams = None /\ d.price = None
  /\ d.jewelry_code = None

MoneyEvents ==
  {ev \in Events : ev.transaction_type \in MONEY_TYPES /\ IsMoneyPayload(ev.details)}

\* C3 as stated: every accepted Receive Money / Send Money event whose
\* payload {amount, bank_account_id} names an existing bank account appends
\* a row with money_amount = +amount / -amount, gold_amount_grams = 0 and
\* that bank_account_id, and leaves the customer's gold balance as it was.
C3_AsStated ==
  [][\A ev \in MoneyEvents :
       (Accepted(ev) /\ BankAccountExists(ev.details.bank_account_id))
       => /\ AppendedOne
          /\ NewRow.transaction_type = ev.transaction_type
          /\ NewRow.money_amount = SignOf(ev.transaction_type) * ev.details.amount[1].n
          /\ NewRow.gold_amount_grams = 0
          /\ NewRow.bank_account_id = ev.details.bank_account_id
          /\ _customer_response(DB', ev.customer_id).gold_balance_grams
               = _customer_response(DB, ev.customer_id).gold_balance_grams]_vars

\* C3 amended: the same, with money_amount = +amount (Receive Money) or
\* -amount (Send Money) rounded to the four decimal places of the column.
C3_ReceiveSendMoney ==
  [][\A ev \in MoneyEvents :
       (Accepted(ev) /\ BankAccountExists(ev.details.bank_account_id))
       => /\ AppendedOne
          /\ NewRow.transaction_type = ev.transaction_type
          /\ NewRow.customer_id = ev.customer_id
          /\ NewRow.money_amount =
               SignOf(ev.transaction_type) * Numeric4(ev.details.amount[1].n)
          /\ NewRow.gold_amount_grams = 0
          /\ NewRow.bank_account_id = ev.details.bank_account_id
          /\ _customer_response(DB', ev.customer_id).gold_balance_grams
               = _customer_response(DB, ev.customer_id).gold_balance_grams
          /\ get_account_balance(DB', ev.customer_id).gold_gr
               = get_account_balance(DB, ev.customer_id).gold_gr]_vars

\* C3 witness: 0.10006 was received on bank account 1 and then sent from it;
\* the rows carry +0.1001 and -0.1001 and no gold.
C3_Witness ==
  /\ last.status = "success"
  /\ Len(transactions) = 2
  /\ transactions[1].transaction_type = RECEIVE_MONEY
  /\ transactions[1].money_amount = 10010000
  /\ transactions[2].transaction_type = SEND_MONEY
  /\ transactions[2].money_amount = -10010000
  /\ transactions[2].gold_amount_grams = 0
  /\ transactions[2].bank_account_id = Some(1)

\* The payload has exactly the keys weight_grams and purity.
IsRawPayload(d) ==
  /\ d.is_dict /\ IsFloat(d.weight_grams) /\ IsFloat(d.purity)
  /\ d.price = None /\ d.amount = None /\ d.bank_account_id = None
  /\ d.jewelry_code = None

RawEvents ==
  {ev \in Events : /\ ev.transaction_type \in {RECEIVE_RAW_GOLD, GIVE_RAW_GOLD}
                   /\ IsRawPayload(ev.details)}

\* C4 as stated: every accepted Receive Raw Gold / Give Raw Gold event with
\* payload {weight_grams, purity} appends a row with gold_amount_grams =
\* +weight_grams / -weight_grams and money_amount = 0, so the customer's
\* money balance is as it was.
C4_AsStated ==
  [][\A ev \in RawEvents :
       Accepted(ev)
       => /\ AppendedOne
          /\ NewRow.transaction_type = ev.transaction_type
          /\ NewRow.gold_amount_grams =
               SignOf(ev.transaction_type) * ev.details.weight_grams[1].n
          /\ NewRow.money_amount = 0
          /\ _customer_response(DB', ev.customer_id).money_balance
               = _customer_response(DB, ev.customer_id).money_balance]_vars

\* C4 amended: the same, with gold_amount_grams = +weight_grams (Receive Raw
\* Gold) or -weight_grams (Give Raw Gold) rounded to the four decimal places
\* of the column.
C4_ReceiveGiveRawGold ==
  [][\A ev \in RawEvents :
       Accepted(ev)
       => /\ AppendedOne
          /\ NewRow.transaction_type = ev.transaction_type
          /\ NewRow.customer_id = ev.customer_id
          /\ NewRow.gold_amount_grams =
               SignOf(ev.transaction_type) * Numeric4(ev.details.weight_grams[1].n)
          /\ NewRow.money_amount = 0
          /\ _customer_response(DB', ev.customer_id).money_balance
               = _customer_response(DB, ev.customer_id).money_balance
          /\ get_account_balance(DB', ev.customer_id).rial
               = get_account_balance(DB, ev.customer_id).rial]_vars

\* C4 witness: 0.123456 g of raw gold was received and then given; the rows
\* carry +0.1235 and -0.1235 and no money.
C4_Witness ==
  /\ last.status = "success"
  /\ Len(transactions) = 2
  /\ transactions[1].transaction_type = RECEIVE_RAW_GOLD
  /\ transactions[1].gold_amount_grams = 12350000
  /\ transactions[2].transaction_type = GIVE_RAW_GOLD
  /\ transactions[2].gold_amount_grams = -12350000
  /\ transactions[2].money_amount = 0

\* The payload has exactly the key jewelry_code.
IsJewelryPayload(d) ==
  /\ d.is_dict /\ d.jewelry_code # None
  /\ d.purity = None /\ d.weight_grams = None /\ d.price = None
  /\ d.amount = None /\ d.bank_account_id = None

ReceiveJewelryEvents ==
  {ev \in Events : ev.transaction_type = RECEIVE_JEWELRY /\ IsJewelryPayload(ev.details)}

GiveJewelryEvents ==
  {ev \in Events : ev.transaction_type = GIVE_JEWELRY /\ IsJewelryPayload(ev.details)}

\* weight_grams x purity of the item with the code, as the catalog holds it
\* before the step.
PureGoldOf(code) ==
  FloatProduct(jewelry_items[JewelryByCode(code)].weight_grams,
               jewelry_items[JewelryByCode(code)].purity)

\* C5 as stated: every accepted Receive Jewelry event for an existing code
\* appends a row with money_amount = 0, gold_amount_grams = +(weight_grams x
\* purity) of the item as it is when the event is processed and item_id =
\* the item's id, and sets the item's status to "In Stock (Consignment)".
C5_AsStated ==
  [][\A ev \in ReceiveJewelryEvents :
       (Accepted(ev) /\ JewelryByCode(ev.details.jewelry_code) # 0)
       => /\ AppendedOne
          /\ NewRow.money_amount = 0
          /\ NewRow.gold_amount_grams = PureGoldOf(ev.details.jewelry_code)
          /\ NewRow.item_id = Some(JewelryByCode(ev.details.jewelry_code))
          /\ jewelry_items'[JewelryByCode(ev.details.jewelry_code)].status = CONSIGNMENT]_vars

\* C5 amended: the same, with gold_amount_grams = +(weight_grams x purity)
\* rounded to the four decimal places of the column.
C5_ReceiveJewelry ==
  [][\A ev \in ReceiveJewelryEvents :
       (Accepted(ev) /\ JewelryByCode(ev.details.jewelry_code) # 0)
       => /\ AppendedOne
          /\ NewRow.transaction_type = RECEIVE_JEWELRY
          /\ NewRow.customer_id = ev.customer_id
          /\ NewRow.money_amount = 0
          /\ NewRow.gold_amount_grams = Numeric4(PureGoldOf(ev.details.jewelry_code))
          /\ NewRow.item_id = Some(JewelryByCode(ev.details.jewelry_code))
          /\ jewelry_items'[JewelryByCode(ev.details.jewelry_code)].status = CONSIGNMENT]_vars

\* C5 witness: NECK-001 (1.234 g at 0.999, pure gold 1.232766 g) was received
\* twice, the second time with its status already the consignment marker;
\* both rows carry +1.2328 g.
C5_Witness ==
  /\ last.status = "success"
  /\ Len(transactions) = 2
  /\ \A i \in 1..2 :
       /\ transactions[i].transaction_type = RECEIVE_JEWELRY
       /\ transactions[i].item_id = Some(2)
       /\ transactions[i].gold_amount_grams = 123280000
       /\ transactions[i].money_amount = 0
  /\ jewelry_items[2].status = CONSIGNMENT
  /\ jewelry_items[1].status = IN_STOCK

\* C6 as stated: every accepted Give Jewelry event for an existing code
\* appends a row with money_amount = 0, gold_amount_grams = -(weight_grams x
\* purity) of the item and item_id = the item's id, and changes the status of
\* no JewelryItem.
C6_AsStated ==
  [][\A ev \in GiveJewelryEvents :
       (Accepted(ev) /\ JewelryByCode(ev.details.jewelry_code) # 0)
       => /\ AppendedOne
          /\ NewRow.money_amount = 0
          /\ NewRow.gold_amount_grams = -PureGoldOf(ev.details.jewelry_code)
          /\ NewRow.item_id = Some(JewelryByCode(ev.details.jewelry_code))
          /\ jewelry_items' = jewelry_items]_vars

\* C6 amended: the same, with gold_amount_grams = -(weight_grams x purity)
\* rounded to the four decimal places of the column.
C6_GiveJewelry ==
  [][\A ev \in GiveJewelryEvents :
       (Accepted(ev) /\ JewelryByCode(ev.details.jewelry_code) # 0)
       => /\ AppendedOne
          /\ NewRow.transaction_type = GIVE_JEWELRY
          /\ NewRow.customer_id = ev.customer_id
          /\ NewRow.money_amount = 0
          /\ NewRow.gold_amount_grams = -Numeric4(PureGoldOf(ev.details.jewelry_code))
          /\ NewRow.item_id = Some(JewelryByCode(ev.details.jewelry_code))
          /\ jewelry_items' = jewelry_items]_vars

\* C6 witness: NECK-001 was given while in stock and RING-001 while on
\* consignment; the rows carry -1.2328 g and -4.125 g and both items kept
\* their status.
C6_Witness ==
  /\ last.status = "success"
  /\ Len(transactions) = 2
  /\ transactions[1].transaction_type = RECEIVE_JEWELRY
  /\ transactions[1].item_id = Some(1)
  /\ transactions[2].transaction_type = GIVE_JEWELRY
  /\ transactions[2].item_id = Some(2)
  /\ transactions[2].gold_amount_grams = -123280000
  /\ transactions[2].money_amount = 0
  /\ jewelry_items[1].status = CONSIGNMENT
  /\ jewelry_items[2].status = IN_STOCK

(* ------------------------- rejected events ----------------------------- *)
AdapterOps ==
  {"SqlAlchemyAdapter.execute_transaction", "MockAccountingAdapter.execute_transaction"}

\* Every projection of customer c and of bank account a over the database db.
Projections(db) ==
  [customer |-> [c \in 1..Len(customers) |->
                   <<_customer_response(db, c), get_account_balance(db, c),
                     get_customer_balance_raw_gold_by_purity(db, c),
                     get_customer_balance_jewelry(db, c)>>],
   bank |-> [a \in 1..Len(bank_accounts) |-> _balance_for_account(db, a)]]

\* C7 as stated: whenever execute_transaction returns an error result, or
\* create_transaction rejects the request with an HTTP error, the ledger has
\* the same rows as before the call, every JewelryItem has the same status,
\* and every projection returns the same value.
C7_AsStated ==
  [][(last'.status = "error" /\ last'.op # "none")
       => /\ transactions' = transactions
          /\ jewelry_items' = jewelry_items
          /\ Projections(DB') = Projections(DB)]_vars

\* C8: after every call of execute_transaction on an adapter the caller
\* holds a result whose status is "success" with a transaction_id, or
\* "error" with a message and no transaction_id; no call ends with an
\* exception leaving the adapter.
C8_NeverRaises ==
  last.op \in AdapterOps
  => /\ last.status \in {"success", "error"}
     /\ last.status = "success" => last.transaction_id # None
     /\ last.status = "error" => (last.transaction_id = None /\ last.message # "")

\* C8 witness: with a row in the ledger, an exception inside the adapter (a
\* value Decimal cannot read, a failed storage call) came back as the error
\* result.
C8_Witness ==
  /\ last = Call(1, ErrorResult("SqlAlchemyAdapter.execute_transaction",
                                 "Failed to execute transaction"))
  /\ Len(transactions) = 1

\* The step is a call of execute_transaction (SQL adapter) or
\* create_transaction with a customer_id that names no Customer; the calls
\* made with such an id carry every transaction type and every payload.
CalledWithUnknownCustomer ==
  /\ last'.op \in {"SqlAlchemyAdapter.execute_transaction", "create_transaction"}
  /\ ~CustomerExists(last'.customer_id)

\* C9 as stated: an event whose customer_id names no Customer is rejected
\* with a not-found error, whatever its transaction type and payload, and
\* appends no ledger row.
C9_AsStated ==
  [][CalledWithUnknownCustomer
       => /\ last'.status = "error"
          /\ last'.message = "Customer not found"
          /\ transactions' = transactions]_vars

\* C9 amended: such an event appends no ledger row and is rejected:
\* by execute_transaction with the customer-not-found error for every type
\* and payload; by create_transaction with 404 customer-not-found, or, when
\* the body fails the validation of the request, with the 422 validation
\* error.
C9_UnknownCustomer ==
  [][CalledWithUnknownCustomer
       => /\ last'.status = "error"
          /\ transactions' = transactions
          /\ jewelry_items' = jewelry_items
          /\ IF last'.op = "create_transaction"
             THEN \/ last'.status_code = 404 /\ last'.message = "Customer not found"
                  \/ last'.status_code = 422 /\ last'.message = "Validation error"
             ELSE last'.message = "Customer not found"]_vars

\* C9 witness: with a row in the ledger, the route answered 404 customer
\* not found.
C9_Witness ==
  /\ last.op = "create_transaction"
  /\ ~CustomerExists(last.customer_id)
  /\ last.status = "error" /\ last.status_code = 404
  /\ last.message = "Customer not found"
  /\ Len(transactions) = 1

\* The Send / Receive Money events whose payload names no bank account of
\* the seeded table, or carries no bank_account_id.
UnknownBankEvents ==
  {ev \in Events : /\ ev.transaction_type \in MONEY_TYPES
                   /\ ev.details.is_dict
                   /\ \/ ev.details.bank_account_id = None
                      \/ ev.details.bank_account_id[1] \notin 1..Len(SeedBankAccounts)}

NotFound(result) ==
  /\ result.status = "error"
  /\ result.message \in {"Customer not found", "Bank account not found"}
  /\ result.op = "create_transaction" => result.status_code = 404

\* C10 as stated: a Send Money or Receive Money event whose bank_account_id
\* names no BankAccount, or whose payload has no bank_account_id, is rejected
\* with a not-found error and the ledger has as many rows after the call as
\* before.
C10_AsStated ==
  [][\A ev \in UnknownBankEvents :
       (Called(ev) /\ ~BankAccountExists(ev.details.bank_account_id))
       => /\ NotFound(last')
          /\ Len(transactions') = Len(transactions)]_vars

\* C10 amended: such an event leaves the number of ledger rows as it was
\* and is rejected with a not-found error, except that create_transaction
\* rejects a body that fails the validation of the request (as a payload
\* with no bank_account_id does) with the 422 validation error.
C10_UnknownBankAccount ==
  [][\A ev \in UnknownBankEvents :
       (Called(ev) /\ ~BankAccountExists(ev.details.bank_account_id))
       => /\ Len(transactions') = Len(transactions)
          /\ transactions' = transactions
          /\ IF last'.op = "create_transaction" /\ ~Validated[ev].ok
             THEN last'.status = "error" /\ last'.status_code = 422
             ELSE NotFound(last')
          /\ (CustomerExists(ev.customer_id)
                /\ ~(last'.op = "create_transaction" /\ ~Validated[ev].ok))
              => last'.message = "Bank account not found"]_vars

\* C10 witness: with a row in the ledger, the adapter answered bank account
\* not found.
C10_Witness ==
  /\ last = Call(1, ErrorResult("SqlAlchemyAdapter.execute_transaction",
                                 "Bank account not found"))
  /\ Len(transactions) = 1

\* The Receive / Give Jewelry events whose jewelry_code is carried by no item
\* of the seeded catalog.
UnknownJewelryEvents ==
  {ev \in Events :
     /\ ev.transaction_type \in JEWELRY_TYPES
     /\ IsJewelryPayload(ev.details)
     /\ \A i \in 1..Len(SeedJewelryItems) :
          SeedJewelryItems[i].jewelry_code # ev.details.jewelry_code[1]}

\* C11: a Receive Jewelry or Give Jewelry event whose jewelry_code names no
\* JewelryItem is rejected with a not-found error (jewelry not found, or
\* customer not found when the customer is unknown as well; 404 from the
\* route), appends no ledger row and changes no item's status.
C11_UnknownJewelryCode ==
  [][\A ev \in UnknownJewelryEvents :
       (Called(ev) /\ JewelryByCode(ev.details.jewelry_code) = 0)
       => /\ last'.status = "error"
          /\ last'.message \in {"Jewelry not found", "Customer not found"}
          /\ CustomerExists(ev.customer_id) => last'.message = "Jewelry not found"
          /\ last'.op = "create_transaction" => last'.status_code = 404
          /\ transactions' = transactions
          /\ jewelry_items' = jewelry_items]_vars

\* C11 witness: with RING-001 on consignment and its row in the ledger, the
\* adapter answered jewelry not found.
C11_Witness ==
  /\ last = Call(1, ErrorResult("SqlAlchemyAdapter.execute_transaction",
                                 "Jewelry not found"))
  /\ Len(transactions) = 1
  /\ transactions[1].transaction_type = RECEIVE_JEWELRY
  /\ jewelry_items[1].status = CONSIGNMENT

\* The keys a payload carries, and the keys the detail schema of a
\* transaction type declares.
KeysOf(d) ==
  {k \in {"purity", "weight_grams", "price", "amount", "bank_account_id", "jewelry_code"} :
     d[k] # None}

RequiredKeys(tx_type) ==
  CASE tx_type \in {SELL_RAW_GOLD, BUY_RAW_GOLD} -> {"purity", "weight_grams", "price"}
    [] tx_type \in MONEY_TYPES -> {"amount", "bank_account_id"}
    [] tx_type \in {RECEIVE_RAW_GOLD, GIVE_RAW_GOLD} -> {"weight_grams", "purity"}
    [] tx_type \in JEWELRY_TYPES -> {"jewelry_code"}

\* The events of a known type whose payload lacks a required key or has the
\* keys of another variant.
InvalidPayloadEvents ==
  {ev \in Events : /\ ev.transaction_type \in TransactionType
                   /\ ev.details.is_dict
                   /\ KeysOf(ev.details) # RequiredKeys(ev.transaction_type)}

\* C12 as stated: an event whose payload lacks a field its transaction type
\* requires, or has the shape of a different variant, is rejected before any
\* ledger row is written and never produces a successful row.
C12_AsStated ==
  [][\A ev \in InvalidPayloadEvents :
       Called(ev) => (last'.status = "error" /\ transactions' = transactions)]_vars

InvalidTypeEvents == {ev \in Events : ev.transaction_type \notin TransactionType}

\* C13: an event whose transaction_type is none of the eight values gets an
\* error result (invalid transaction type from the adapter for a known
\* customer, 422 from the route) and appends no row; every row of the ledger
\* has one of the eight type values.
C13_OnlyEightTypes ==
  [][/\ \A ev \in InvalidTypeEvents :
          Called(ev)
          => /\ last'.status = "error"
             /\ transactions' = transactions
             /\ last'.op = "create_transaction" => last'.status_code = 422
             /\ (last'.op # "create_transaction" /\ CustomerExists(ev.customer_id))
                 => last'.message = "Invalid transaction type"
     /\ \A i \in 1..Len(transactions') :
          transactions'[i].transaction_type \in TransactionType]_vars

\* C13 witness: with a row in the ledger, the adapter answered invalid
\* transaction type to a known customer.
C13_Witness ==
  /\ last = Call(1, ErrorResult("SqlAlchemyAdapter.execute_transaction",
                                 "Invalid transaction type"))
  /\ Len(transactions) = 1

\* The net gold of an item for customer c: the sum of gold_amount_grams over
\* c's Receive / Give Jewelry rows of the item, row by row in append order.
RECURSIVE ItemNet(_, _, _)
ItemNet(rows, c, item) ==
  IF rows = <<>> THEN 0
  ELSE LET r == rows[Len(rows)]
       IN ItemNet(SubSeq(rows, 1, Len(rows) - 1), c, item)
          + (IF /\ r.customer_id = c /\ r.item_id = Some(item)
                /\ r.transaction_type \in {RECEIVE_JEWELRY, GIVE_JEWELRY}
             THEN r.gold_amount_grams ELSE 0)

\* The items customer c's Receive / Give Jewelry rows refer to.
ItemsOf(rows, c) ==
  {item \in 1..Len(jewelry_items) :
     \E i \in 1..Len(rows) :
       /\ rows[i].customer_id = c /\ rows[i].item_id = Some(item)
       /\ rows[i].transaction_type \in {RECEIVE_JEWELRY, GIVE_JEWELRY}}

CustodyOf(net) ==
  IF net > 0 THEN "Held by us" ELSE IF net < 0 THEN "With customer" ELSE "Settled"

\* C14: in every reachable state, for every customer the jewelry balance has
\* one entry per distinct item of the customer's Receive / Give Jewelry rows
\* and no other entry, and the status of an item's entry is given by the net
\* sum of gold_amount_grams of those rows alone: positive "Held by us",
\* negative "With customer", zero "Settled".
C14_JewelryCustody ==
  \A c \in 1..Len(customers) :
    LET balance == get_customer_balance_jewelry(DB, c)
        items == ItemsOf(transactions, c)
    IN /\ Cardinality(balance) = Cardinality(items)
       /\ balance = {[jewelry_code |-> jewelry_items[item].jewelry_code,
                      status |-> CustodyOf(ItemNet(transactions, c, item))] :
                       item \in items}

\* C14 witness: the first account consigned RING-001 and was given NECK-001;
\* its jewelry balance has the two entries, one held and one with the
\* customer, while the second account's is empty.
C14_Witness ==
  /\ Len(transactions) = 2
  /\ get_customer_balance_jewelry(DB, 1) =
       {[jewelry_code |-> "RING-001", status |-> "Held by us"],
        [jewelry_code |-> "NECK-001", status |-> "With customer"]}
  /\ get_customer_balance_jewelry(DB, 2) = {}

\* The transaction types of customer c's jewelry rows of an item, in append
\* order.
RECURSIVE JewelryHistory(_, _, _)
JewelryHistory(rows, c, item) ==
  IF rows = <<>> THEN <<>>
  ELSE LET r == rows[Len(rows)]
           before == JewelryHistory(SubSeq(rows, 1, Len(rows) - 1), c, item)
       IN IF /\ r.customer_id = c /\ r.item_id = Some(item)
             /\ r.transaction_type \in {RECEIVE_JEWELRY, GIVE_JEWELRY}
          THEN Append(before, r.transaction_type)
          ELSE before

RECURSIVE PurityNet(_, _, _)
PurityNet(rows, c, purity) ==
  IF rows = <<>> THEN 0
  ELSE LET r == rows[Len(rows)]
       IN PurityNet(SubSeq(rows, 1, Len(rows) - 1), c, purity)
          + (IF /\ r.customer_id = c /\ r.purity = Some(purity)
                /\ r.transaction_type \in {SELL_RAW_GOLD, BUY_RAW_GOLD,
                                            RECEIVE_RAW_GOLD, GIVE_RAW_GOLD}
             THEN r.gold_amount_grams ELSE 0)

\* The purities of customer c's raw-gold rows.
PuritiesOf(rows, c) ==
  {rows[i].purity[1] :
     i \in {j \in 1..Len(rows) :
              /\ rows[j].customer_id = c /\ rows[j].purity # None
              /\ rows[j].transaction_type \in {SELL_RAW_GOLD, BUY_RAW_GOLD,
                                                RECEIVE_RAW_GOLD, GIVE_RAW_GOLD}}}

\* C16: in every reachable state, for every customer the raw-gold-by-purity
\* balance has exactly one bucket per distinct non-null purity of the
\* customer's Sell / Buy / Receive / Give Raw Gold rows, and a bucket's
\* net_gold_grams is the sum of gold_amount_grams over the rows of that
\* purity only; money and jewelry rows contribute to no bucket.
C16_RawGoldByPurity ==
  \A c \in 1..Len(customers) :
    LET buckets == get_customer_balance_raw_gold_by_purity(DB, c)
        purities == PuritiesOf(transactions, c)
    IN /\ Cardinality(buckets) = Cardinality(purities)
       /\ buckets = {[purity |-> purity,
                      net_gold_grams |-> PurityNet(transactions, c, purity)] :
                       purity \in purities}

\* C16 witness: the first account sold 0.3 g at purity 0.999 and handed in
\* 0.1235 g at purity 0.75: two buckets, not one netted value.
C16_Witness ==
  /\ Len(transactions) = 2
  /\ get_customer_balance_raw_gold_by_purity(DB, 1) =
       {[purity |-> 99900000, net_gold_grams |-> -30000000],
        [purity |-> 75000000, net_gold_grams |-> 12350000]}

\* The sum of money_amount over the rows whose bank_account_id is account a,
\* row by row in append order.
RECURSIVE BankSum(_, _)
BankSum(rows, a) ==
  IF rows = <<>> THEN 0
  ELSE BankSum(SubSeq(rows, 1, Len(rows) - 1), a)
       + (IF rows[Len(rows)].bank_account_id = Some(a)
          THEN rows[Len(rows)].money_amount ELSE 0)

\* C17: in every reachable state the balance reported for a bank account is
\* the sum of money_amount over the ledger rows whose bank_account_id is
\* that account, with no baseline (0 for an account no row refers to); and
\* a step that appends a row without bank_account_id changes no bank
\* account's balance.
C17_BankAccountBalance ==
  /\ [](\A a \in 1..Len(bank_accounts) :
          /\ _balance_for_account(DB, a) = BankSum(transactions, a)
          /\ list_bank_accounts(DB)[a].balance = BankSum(transactions, a)
          /\ (\A i \in 1..Len(transactions) : transactions[i].bank_account_id # Some(a))
              => _balance_for_account(DB, a) = 0)
  /\ [][(AppendedOne /\ NewRow.bank_account_id = None)
          => \A a \in 1..Len(bank_accounts) :
               list_bank_accounts(DB')[a].balance = list_bank_accounts(DB)[a].balance]_vars

\* C17 witness: 0.1001 was received on the first bank account and then a
\* raw-gold sale with a price was appended: the first account's balance is
\* 0.1001, the second's, which no row refers to, is 0.
C17_Witness ==
  /\ Len(transactions) = 2
  /\ transactions[1].transaction_type = RECEIVE_MONEY
  /\ transactions[1].bank_account_id = Some(1)
  /\ transactions[2].transaction_type = SELL_RAW_GOLD
  /\ transactions[2].money_amount = 29000000
  /\ _balance_for_account(DB, 1) = 10010000
  /\ _balance_for_account(DB, 2) = 0

\* Customer c's rows in the order in which they were appended.
RECURSIVE InsertionOrder(_, _)
InsertionOrder(rows, c) ==
  IF rows = <<>> THEN <<>>
  ELSE IF rows[Len(rows)].customer_id = c
       THEN Append(InsertionOrder(SubSeq(rows, 1, Len(rows) - 1), c), rows[Len(rows)])
       ELSE InsertionOrder(SubSeq(rows, 1, Len(rows) - 1), c)

\* C18 as stated: in every reachable state, for every customer, the list
\* get_transactions returns is the customer's rows in the order in which
\* they were appended: a row appended before another is listed before it.
C18_AsStated ==
  \A c \in 1..Len(customers) :
    \A listing \in get_customer_transactions(DB, c) :
      listing = InsertionOrder(transactions, c)

\* C19 as stated: with both adapters started from the same accounts and
\* given the same calls, whenever the SQL-backed adapter answers the call the
\* mock has just answered, the two statuses are equal, and afterwards
\* get_account_balance gives the same money and gold balance for every
\* account on both.
C19_AsStated ==
  [][(/\ last.op = "MockAccountingAdapter.execute_transaction"
      /\ last'.op = "SqlAlchemyAdapter.execute_transaction")
     => /\ last'.status = last.status
        /\ \A c \in 1..Len(customers) :
             LET mock == MockAccountingAdapter_get_account_balance(c)
                 sql == get_account_balance(DB', c)
             IN /\ mock # <<>>
                /\ mock[1].rial = sql.rial
                /\ mock[1].gold_gr = sql.gold_gr]_vars

\* The accounts of a listing, as a set.
Listed(accounts) == {accounts[i] : i \in 1..Len(accounts)}

\* The balances the ledger gives account c: the opening balances plus the
\* sums over its rows.
DerivedBalance(c) ==
  [rial |-> customers[c].initial_money_balance
            + LedgerSum(transactions, c, "money_amount"),
   gold_gr |-> customers[c].initial_gold_balance_grams
               + LedgerSum(transactions, c, "gold_amount_grams")]

\* What C20 says of one implementation's get_accounts.
FiltersByCategory(get_accounts(_)) ==
  /\ \A acc \in Listed(get_accounts("customer")) : acc.type = "customer"
  /\ \A acc \in Listed(get_accounts("collaborator")) : acc.type = "collaborator"
  /\ {acc.id : acc \in Listed(get_accounts("all"))} = 1..Len(customers)
  /\ Listed(get_accounts("customer")) \cap Listed(get_accounts("collaborator")) = {}
  /\ Listed(get_accounts("customer")) \cup Listed(get_accounts("collaborator"))
       = Listed(get_accounts("all"))

CarriesDerivedBalance(get_accounts(_)) ==
  \A account_type \in {"customer", "collaborator", "all"} :
    \A acc \in Listed(get_accounts(account_type)) :
      /\ acc.balance.rial = DerivedBalance(acc.id).rial
      /\ acc.balance.gold_gr = DerivedBalance(acc.id).gold_gr

\* C20 as stated: once both adapters have answered the same calls, on each
\* of them every account get_accounts returns for 'customer' has type
\* customer, every account returned for 'collaborator' has type
\* collaborator, 'all' returns every account, the 'customer' and
\* 'collaborator' results are disjoint and together equal the 'all' result,
\* and every returned account carries the balance the ledger gives it.
C20_AsStated ==
  LET sql(account_type) == SqlAlchemyAdapter_get_accounts(DB, account_type)
      mock(account_type) == MockAccountingAdapter_get_accounts(account_type)
  IN last.op # "MockAccountingAdapter.execute_transaction"
     => /\ FiltersByCategory(sql)
        /\ CarriesDerivedBalance(sql)
        /\ FiltersByCategory(mock)
        /\ CarriesDerivedBalance(mock)

\* The items some Receive Jewelry row of the ledger refers to.
ReceivedItems(rows) ==
  {item \in 1..Len(jewelry_items) :
     \E i \in 1..Len(rows) :
       rows[i].transaction_type = RECEIVE_JEWELRY /\ rows[i].item_id = Some(item)}

\* What the step adds to the two balances of customer c, as the balance
\* projection reports them before and after.
BalanceStep(c) ==
  <<_customer_response(DB', c).money_balance - _customer_response(DB, c).money_balance,
    _customer_response(DB', c).gold_balance_grams
      - _customer_response(DB, c).gold_balance_grams>>

\* C21: with callers interleaved between a handler's body and its commit,
\* and commits that may fail, in every state a reader can see an item (all
\* items start "In Stock") carries the consignment marker exactly when the
\* ledger holds a Receive Jewelry row of it; and from one visible state to
\* the next the two balances of every customer move together, by both
\* deltas of one whole new row of that customer or not at all.
C21_AtomicUnit ==
  /\ [](\A item \in 1..Len(jewelry_items) :
          jewelry_items[item].status = CONSIGNMENT <=> item \in ReceivedItems(transactions))
  /\ [][\A c \in 1..Len(customers) :
          \/ /\ AppendedOne
             /\ NewRow.customer_id = c
             /\ BalanceStep(c) = <<NewRow.money_amount, NewRow.gold_amount_grams>>
          \/ /\ transactions' = transactions \/ (AppendedOne /\ NewRow.customer_id # c)
             /\ BalanceStep(c) = <<0, 0>>]_vars

\* C21 witness: one caller's Receive Jewelry of RING-001 is still pending
\* (the item reads "In Stock") while the other caller's sale has been
\* appended, with both of its deltas, and the latest call has failed.
C21_Witness ==
  /\ \E s \in Sessions :
       pending[s].transaction_type = RECEIVE_JEWELRY /\ pending[s].b.consigned = 1
  /\ jewelry_items[1].status = IN_STOCK
  /\ Len(transactions) = 1
  /\ transactions[1].transaction_type = SELL_RAW_GOLD
  /\ transactions[1].money_amount # 0 /\ transactions[1].gold_amount_grams # 0
  /\ last.status = "error"

\* The operations that append to the ledger.
LedgerOps == {"SqlAlchemyAdapter.execute_transaction", "create_transaction"}

\* C22: whatever is called (a transaction, an entity creation, a price
\* update, a read), the ledger before the call is a prefix of the ledger
\* after it, row for row and field for field; and a call that reports an
\* accepted event has appended exactly one row, whose transaction_id no
\* earlier row carries.
C22_AppendOnly ==
  [][/\ Len(transactions') >= Len(transactions)
     /\ SubSeq(transactions', 1, Len(transactions)) = transactions
     /\ (last' # last /\ last'.op \in LedgerOps /\ last'.status = "success")
        => /\ AppendedOne
           /\ \A i \in 1..Len(transactions) :
                transactions[i].transaction_id # NewRow.transaction_id]_vars

\* C22 witness: two rows, then a customer, a bank account and a jewelry
\* item were created and a projection was read, and the two rows are there.
C22_Witness ==
  /\ Len(transactions) = 2
  /\ transactions[1].transaction_id # transactions[2].transaction_id
  /\ Len(customers) > Len(SeedCustomers)
  /\ Len(bank_accounts) > Len(SeedBankAccounts)
  /\ Len(jewelry_items) > Len(SeedJewelryItems)
  /\ last.op \in ReadOps

\* The orders in which n rows can have been appended.
Orders(n) == {f \in [1..n -> 1..n] : \A i, j \in 1..n : i # j => f[i] # f[j]}

\* The database with its ledger rows appended in the order f.
Reordered(f) ==
  [DB EXCEPT !.transactions = [i \in 1..Len(transactions) |-> transactions[f[i]]]]

\* The money and gold balance of customer c as the route and as the adapter
\* report them.
Balances(db, c) ==
  <<_customer_response(db, c).money_balance, _customer_response(db, c).gold_balance_grams,
    get_account_balance(db, c).rial, get_account_balance(db, c).gold_gr>>

\* C23: with callers running concurrently, the balances projected after an
\* accepted append are the balances projected before it plus the deltas of
\* the new row, for the row's customer, and the balances before it for
\* every other customer (so N appends add up, each row counted once); and
\* in every state the balances are the same for every order in which the
\* rows of the ledger could have been appended.
C23_IncrementalAndOrderFree ==
  /\ [](\A f \in Orders(Len(transactions)) : \A c \in 1..Len(customers) :
          Balances(Reordered(f), c) = Balances(DB, c))
  /\ [][AppendedOne
         => \A c \in 1..Len(customers) :
              LET before == Balances(DB, c)
                  money == IF NewRow.customer_id = c THEN NewRow.money_amount ELSE 0
                  gold == IF NewRow.customer_id = c THEN NewRow.gold_amount_grams ELSE 0
              IN Balances(DB', c) = <<before[1] + money, before[2] + gold,
                                      before[3] + money, before[4] + gold>>]_vars

\* C23 witness: the first account has two rows with different deltas (money
\* sent, jewelry received) while another caller's event is still pending.
C23_Witness ==
  /\ Len(transactions) = 2
  /\ transactions[1].customer_id = 1 /\ transactions[2].customer_id = 1
  /\ transactions[1].money_amount # 0 /\ transactions[2].gold_amount_grams # 0
  /\ \E s \in Sessions : pending[s].op # "idle"

\* C24: a call of execute_transaction or create_transaction, whatever its
\* outcome, leaves every customer (with its initial balances), every bank
\* account and the gold price as they were, leaves the code, weight and
\* purity of every jewelry item as they were, and changes the status of an
\* item only when it has appended a Receive Jewelry row of that item; and no
\* entity has a field that holds a balance.
C24_WritesRowAndStatusOnly ==
  /\ [][last'.op \in LedgerOps
         => /\ customers' = customers
            /\ bank_accounts' = bank_accounts
            /\ _gold_price' = _gold_price
            /\ Len(jewelry_items') = Len(jewelry_items)
            /\ \A i \in 1..Len(jewelry_items) :
                 /\ jewelry_items'[i].jewelry_code = jewelry_items[i].jewelry_code
                 /\ jewelry_items'[i].weight_grams = jewelry_items[i].weight_grams
                 /\ jewelry_items'[i].purity = jewelry_items[i].purity
                 /\ jewelry_items'[i].status # jewelry_items[i].status
                    => /\ AppendedOne
                       /\ NewRow.transaction_type = RECEIVE_JEWELRY
                       /\ NewRow.item_id = Some(i)]_vars
  /\ [](/\ \A c \in 1..Len(customers) :
            DOMAIN customers[c]
              = {"full_name", "initial_money_balance", "initial_gold_balance_grams"}
         /\ \A a \in 1..Len(bank_accounts) : DOMAIN bank_accounts[a] = {"account_name"}
         /\ \A i \in 1..Len(jewelry_items) :
              DOMAIN jewelry_items[i] = {"jewelry_code", "weight_grams", "purity", "status"})

\* C24 witness: after a customer with an opening balance was created and the
\* price was updated, RING-001 was received (it carries the marker) and
\* NECK-001 still reads "In Stock".
C24_Witness ==
  /\ last.op \in LedgerOps /\ last.status = "success"
  /\ Len(customers) > Len(SeedCustomers)
  /\ customers[Len(customers)].initial_money_balance # 0
  /\ _gold_price # DEFAULT_GOLD_USD_PER_GRAM
  /\ transactions # <<>>
  /\ transactions[Len(transactions)].transaction_type = RECEIVE_JEWELRY
  /\ jewelry_items[1].status = CONSIGNMENT
  /\ jewelry_items[2].status = IN_STOCK

\* C25: an edit of an item's weight or purity leaves every ledger row and
\* every projection (balances, raw gold by purity, jewelry custody, bank
\* balances) as they were; and a Receive / Give Jewelry row appended
\* afterwards carries the weight x purity the catalog holds when it is
\* appended, rounded to the column.
C25_ValuationSnapshot ==
  /\ [][last'.op = "edit_jewelry_item"
         => /\ transactions' = transactions
            /\ Projections(DB') = Projections(DB)]_vars
  /\ [][(AppendedOne /\ NewRow.transaction_type \in JEWELRY_TYPES)
         => LET item == jewelry_items[NewRow.item_id[1]]
                pure == Numeric4(FloatProduct(item.weight_grams, item.purity))
            IN NewRow.gold_amount_grams
                 = (IF NewRow.transaction_type = RECEIVE_JEWELRY THEN pure ELSE -pure)]_vars

\* C25 witness: RING-001 was received at 5.5 g x 0.75 (+4.125), edited to
\* 0.2 g x 0.5 and given back (-0.1): the first row still carries +4.125,
\* the balance is initial + 4.025.
C25_Witness ==
  /\ Len(transactions) = 2
  /\ transactions[1].transaction_type = RECEIVE_JEWELRY
  /\ transactions[1].item_id = Some(1)
  /\ transactions[1].gold_amount_grams = 412500000
  /\ transactions[2].transaction_type = GIVE_JEWELRY
  /\ transactions[2].item_id = Some(1)
  /\ transactions[2].gold_amount_grams = -10000000
  /\ jewelry_items[1].weight_grams = 20000000 /\ jewelry_items[1].purity = 50000000
  /\ get_account_balance(DB, 1).gold_gr
       = customers[1].initial_gold_balance_grams + 402500000

\* The database with the status labels of its jewelry items replaced.
Relabelled(labels) ==
  [DB EXCEPT !.jewelry_items =
     [i \in 1..Len(jewelry_items) |-> [jewelry_items[i] EXCEPT !.status = labels[i]]]]

\* C26: in every reachable state the jewelry report of every customer is
\* the same under every assignment of status labels to the items; and
\* neither a read nor an accepted Give Jewelry changes a label, so that an
\* item received and given back, reported "Settled", keeps the marker the
\* Receive Jewelry set.
C26_CustodyIgnoresLabel ==
  /\ [](\A labels \in [1..Len(jewelry_items) -> {IN_STOCK, CONSIGNMENT}] :
          \A c \in 1..Len(customers) :
            get_customer_balance_jewelry(Relabelled(labels), c)
              = get_customer_balance_jewelry(DB, c))
  /\ [][(last'.op \in ReadOps \/ (AppendedOne /\ NewRow.transaction_type = GIVE_JEWELRY))
         => \A i \in 1..Len(jewelry_items) :
              jewelry_items'[i].status = jewelry_items[i].status]_vars
  /\ [](\A c \in 1..Len(customers), i \in 1..Len(jewelry_items) :
          JewelryHistory(transactions, c, i) = <<RECEIVE_JEWELRY, GIVE_JEWELRY>>
          => jewelry_items[i].status = CONSIGNMENT)

\* C26 witness: RING-001 was received from and given back to the first
\* account; the jewelry report, just read, says "Settled" and the item's
\* label is still the consignment marker.
C26_Witness ==
  /\ JewelryHistory(transactions, 1, 1) = <<RECEIVE_JEWELRY, GIVE_JEWELRY>>
  /\ get_customer_balance_jewelry(DB, 1)
       = {[jewelry_code |-> "RING-001", status |-> "Settled"]}
  /\ jewelry_items[1].status = CONSIGNMENT
  /\ last.op = "get_customer_balance_jewelry"

\* C27: a read (a GET route of the customers or bank accounts, or
\* get_accounts, get_account_balance, get_live_gold_price of the adapter)
\* changes no ledger row, no entity and not the gold price, and every
\* projection returns after it what it returned before it: the customer and
\* bank balances, the raw gold by purity, the jewelry custody, get_accounts
\* for every category, get_account_balance and get_live_gold_price.
C27_PureReads ==
  [][last'.op \in ReadOps
     => /\ transactions' = transactions
        /\ customers' = customers
        /\ bank_accounts' = bank_accounts
        /\ jewelry_items' = jewelry_items
        /\ _gold_price' = _gold_price
        /\ Projections(DB') = Projections(DB)
        /\ \A account_type \in {"customer", "collaborator", "all"} :
             SqlAlchemyAdapter_get_accounts(DB', account_type)
               = SqlAlchemyAdapter_get_accounts(DB, account_type)
        /\ get_live_gold_price' = get_live_gold_price]_vars

\* C27 witness: the gold price was read after it had been updated, over a
\* ledger with a Receive Jewelry row and a created customer.
C27_Witness ==
  /\ last.op = "SqlAlchemyAdapter.get_live_gold_price"
  /\ get_live_gold_price # DEFAULT_GOLD_USD_PER_GRAM
  /\ Len(transactions) = 1
  /\ transactions[1].transaction_type = RECEIVE_JEWELRY
  /\ jewelry_items[1].status = CONSIGNMENT
  /\ Len(customers) > Len(SeedCustomers)

\* The sum of a field over a set of records.
RECURSIVE SumOver(_, _)
SumOver(records, field) ==
  IF records = {} THEN 0
  ELSE LET r == CHOOSE x \in records : TRUE
       IN r[field] + SumOver(records \ {r}, field)

\* C28: in every reachable state, for every customer the gold balance minus
\* the initial gold balance equals the sum of net_gold_grams over the
\* raw-gold-by-purity buckets plus the sum of the per-item nets of the
\* jewelry query; and every row with a non-zero gold_amount_grams is a
\* raw-gold row with a purity or a jewelry row with an item_id.
C28_GoldProjectionsAgree ==
  /\ \A c \in 1..Len(customers) :
       _customer_response(DB, c).gold_balance_grams - customers[c].initial_gold_balance_grams
         = SumOver(get_customer_balance_raw_gold_by_purity(DB, c), "net_gold_grams")
           + SumOver(jewelry_net_gold(DB, c), "net_gold")
  /\ \A i \in 1..Len(transactions) :
       transactions[i].gold_amount_grams # 0
       => \/ /\ transactions[i].transaction_type \in {SELL_RAW_GOLD, BUY_RAW_GOLD,
                                                        RECEIVE_RAW_GOLD, GIVE_RAW_GOLD}
             /\ transactions[i].purity # None
          \/ /\ transactions[i].transaction_type \in {RECEIVE_JEWELRY, GIVE_JEWELRY}
             /\ transactions[i].item_id # None

\* C28 witness: the first account handed in raw gold (one bucket, +0.1235)
\* and a piece of jewelry (RING-001, +4.125); its gold balance is the
\* initial one plus 4.2485.
C28_Witness ==
  /\ Len(transactions) = 2
  /\ Cardinality(get_customer_balance_raw_gold_by_purity(DB, 1)) = 1
  /\ jewelry_net_gold(DB, 1) = {[item_id |-> 1, net_gold |-> 412500000]}
  /\ _customer_response(DB, 1).gold_balance_grams
       = customers[1].initial_gold_balance_grams + 424850000

\* What the route does with the event in the current state, up to the
\* commit: the 422 of the body validation, or the handler's outcome.
RouteOutcome(ev) ==
  IF ~Validated[ev].ok THEN HTTPException(422, "Validation error")
  ELSE http_body([customer_id |-> ev.customer_id,
                  transaction_type |-> ev.transaction_type,
                  details |-> Validated[ev].details])

\* Both outcomes are a row to append, with the same stored columns and the
\* same write to the jewelry status.
SameRow(ev, a, h) ==
  /\ a.out = "row" /\ h.out = "row"
  /\ Transaction(ev.customer_id, ev.transaction_type, a.f, SteadyReading)
       = Transaction(ev.customer_id, ev.transaction_type, h.f, SteadyReading)
  /\ StatusWritten(a.consigned) = StatusWritten(h.consigned)

\* C29 as stated: over the same stored entities and for the same event,
\* create_transaction and SqlAlchemyAdapter.execute_transaction either both
\* reject the event or both append a row with identical money_amount,
\* gold_amount_grams, bank_account_id, item_id, price, weight_grams and
\* purity, and the same jewelry-status side effect.
C29_AsStated ==
  [][\A ev \in Events :
       /\ (/\ Called(ev)
           /\ last'.op = "SqlAlchemyAdapter.execute_transaction"
           /\ AppendedOne)
          => /\ SameRow(ev, sql_body(ev), RouteOutcome(ev))
             /\ NewRow = Transaction(ev.customer_id, ev.transaction_type,
                                      RouteOutcome(ev).f, SteadyReading)
             /\ jewelry_items' = StatusWritten(RouteOutcome(ev).consigned)
       /\ (/\ Called(ev)
           /\ last'.op = "create_transaction"
           /\ AppendedOne)
          => /\ SameRow(ev, sql_body(ev), RouteOutcome(ev))
             /\ NewRow = Transaction(ev.customer_id, ev.transaction_type,
                                      sql_body(ev).f, SteadyReading)
             /\ jewelry_items' = StatusWritten(sql_body(ev).consigned)]_vars

\* The adapter was called once per item of the plan, in plan order, each
\* time with the transaction the item carries.
PlanSubmitted ==
  plan_call.calls = [k \in 1..Len(plan_call.plan) |-> plan_call.plan[k].transaction]

\* The reported status, from the steps that failed and succeeded.
PlanStatus ==
  /\ last.op = "execute_plan"
  /\ last.status = "success" <=> plan_call.errors = <<>>
  /\ last.status = "partial_success" <=> (plan_call.errors # <<>> /\ plan_call.results # <<>>)
  /\ last.status = "error" <=> (plan_call.errors # <<>> /\ plan_call.results = <<>>)
  /\ Len(plan_call.results) + Len(plan_call.errors) = Len(plan_call.plan)

\* A turn of the loop moves on to the next item whatever its result, keeps
\* the rows appended so far, and appends a row exactly when it files the
\* step under results.
PlanStepRows ==
  /\ plan_call'.pc = "loop"
  /\ plan_call'.i = plan_call.i + 1
  /\ SubSeq(transactions', 1, Len(transactions)) = transactions
  /\ Len(transactions') - Len(transactions)
       = Len(plan_call'.results) - Len(plan_call.results)

\* C30 as stated: execute_plan submits every transaction of the plan to the
\* adapter exactly once, in plan order; a failing step neither stops the
\* later steps nor undoes the earlier ones; the reported status is "success"
\* when no step failed, "partial_success" when at least one step succeeded
\* and at least one failed, "error" when every step failed; and the number
\* of rows appended equals the number of steps reported as successful.
C30_AsStated ==
  /\ [](plan_call.pc = "done" => (PlanSubmitted /\ PlanStatus))
  /\ [][plan_call'.calls # plan_call.calls /\ plan_call.pc = "loop" => PlanStepRows]_vars

====
